---------------------------- MODULE Spec2Model ----------------------------
(***************************************************************************)
(* Model of the Vibrational-Gravity-Theory wave engines.                   *)
(*                                                                         *)
(*   src/simulations/wave_1d.py   VGTSimulation1D                          *)
(*   src/simulations/wave_2d.py   VGTSimulation2D, demonstrate_interference*)
(*   src/New folder/Test_Results/integrated_workflow.py  update_wave, ...  *)
(*   src/New folder/Test_Results/extended_workflow.py    update_2d, ...    *)
(*                                                                         *)
(* Numbers.  The code computes in 64-bit floating point.  The model        *)
(* computes in exact rational arithmetic: a number is a pair <<n, d>> in   *)
(* lowest terms with d > 0.  No claim settled here depends on rounding.    *)
(* np.exp and np.sqrt are modelled exactly on the arguments the model      *)
(* draws (see ExpNeg and Sqrt); the constructor arguments are drawn so     *)
(* that every such argument is representable.                              *)
(*                                                                         *)
(* Arrays.  A numpy vector is a sequence; Python index i is TLA+ index     *)
(* i + 1.  A 2D array phi[r, c] is a sequence of rows, phi[r+1][c+1].      *)
(***************************************************************************)
EXTENDS Integers, Sequences, FiniteSets, TLC

(***************************************************************************)
(* Bounds of the model.                                                    *)
(***************************************************************************)
\* largest number of grid points along an axis
MaxNx == 5
\* largest Nt passed to simulate / run_simulation
MaxNt == 3
\* largest save_every passed to simulate
MaxSave == 2
\* largest number of simulate calls on one instance
MaxRuns == 2
\* largest Nt passed to run_simulation (its CFL factor 0.9 multiplies the
\* denominators by 100 every step)
MaxNtWorkflow == 2

(***************************************************************************)
(* Exact rational arithmetic (stands for Python float arithmetic).         *)
(***************************************************************************)
Abs(n) == IF n < 0 THEN -n ELSE n

RECURSIVE GCD(_, _)
GCD(a, b) == IF b = 0 THEN a ELSE GCD(b, a % b)

\* the rational n/d in lowest terms, d # 0
Rat(n, d) ==
    LET g == GCD(Abs(n), Abs(d))
        s == IF d < 0 THEN -1 ELSE 1
    IN  <<s * (n \div g), s * (d \div g)>>

RInt(n) == <<n, 1>>
Zero == <<0, 1>>
One == <<1, 1>>
Two == <<2, 1>>

RAdd(a, b) ==
    LET g == GCD(a[2], b[2])
        l == (a[2] \div g) * b[2]
    IN  Rat(a[1] * (l \div a[2]) + b[1] * (l \div b[2]), l)

RNeg(a) == <<-a[1], a[2]>>

RMul(a, b) ==
    LET g1 == GCD(Abs(a[1]), b[2])
        g2 == GCD(Abs(b[1]), a[2])
    IN  IF a[1] = 0 \/ b[1] = 0 THEN Zero
        ELSE <<(a[1] \div g1) * (b[1] \div g2), (a[2] \div g2) * (b[2] \div g1)>>

\* a / b, b # 0 (Python raises ZeroDivisionError on b = 0; callers guard it)
RDiv(a, b) == RMul(a, Rat(b[2], b[1]))
RSq(a) == RMul(a, a)
RAbs(a) == <<Abs(a[1]), a[2]>>
RSub(a, b) == RAdd(a, RNeg(b))
RLess(a, b) == RSub(a, b)[1] < 0
RLeq(a, b) == RSub(a, b)[1] <= 0
RMax(a, b) == IF RLess(a, b) THEN b ELSE a
RMin(a, b) == IF RLess(b, a) THEN b ELSE a
IsInteger(a) == a[2] = 1

RECURSIVE Pow2(_)
Pow2(n) == IF n = 0 THEN 1 ELSE 2 * Pow2(n - 1)

(***************************************************************************)
(* np.exp(-q), q >= 0.  The exponential is taken to the base 2^(1/4)       *)
(* instead of e: ExpNeg(q) = 2^(-q/4), a rational whenever q is a multiple *)
(* of 4.  Positivity, exp(0) = 1, strict monotonicity and                  *)
(* exp(a+b) = exp(a)exp(b) are those of np.exp; only the unit of the       *)
(* pulse width differs (by the factor 4/ln 2).                             *)
(***************************************************************************)
ExpDefined(q) == IsInteger(q) /\ q[1] >= 0 /\ q[1] % 4 = 0 /\ q[1] \div 4 <= 12
ExpNeg(q) == <<1, Pow2(q[1] \div 4)>>

(***************************************************************************)
(* np.sqrt(a), a >= 0, on the perfect squares.                             *)
(***************************************************************************)
ISqrtDefined(n) == \E k \in 0..n : k * k = n
ISqrt(n) == CHOOSE k \in 0..n : k * k = n
SqrtDefined(a) == a[1] >= 0 /\ ISqrtDefined(a[1]) /\ ISqrtDefined(a[2])
Sqrt(a) == <<ISqrt(a[1]), ISqrt(a[2])>>

(***************************************************************************)
(* numpy vectors.                                                          *)
(***************************************************************************)
\* np.zeros_like(phi) for a vector
ZerosLike(phi) == [i \in 1..Len(phi) |-> Zero]

\* np.linspace(0, stop, num), num >= 2
Linspace(stop, num) == [i \in 1..num |-> RMul(RInt(i - 1), RDiv(stop, RInt(num - 1)))]

RECURSIVE MaxAbsFrom(_, _)
MaxAbsFrom(phi, i) ==
    IF i = Len(phi) THEN RAbs(phi[i])
    ELSE RMax(RAbs(phi[i]), MaxAbsFrom(phi, i + 1))

\* a variant of the amplitude that takes np.max(phi), without np.abs
MaxSigned(phi) ==
    CHOOSE m \in {phi[i] : i \in 1..Len(phi)} : \A i \in 1..Len(phi) : RLeq(phi[i], m)

\* np.max(np.abs(phi)) for a non-empty vector
MaxAbs(phi) == MaxAbsFrom(phi, 1)

VARIABLES
    self,           \* the instance: constructor arguments and derived fields
    phi_history,    \* self.phi_history (run_simulation: its local phi_history)
    time_points,    \* self.time_points
    max_amplitude,  \* self.max_amplitude (VGTSimulation1D only)
    energy_history, \* self.energy_history (VGTSimulation2D only)
    pc,             \* "idle" | "loop" | "returned" | "raised"
    phi,            \* simulate's local phi
    phi_prev,       \* simulate's local phi_prev
    laplacian,      \* simulate's local laplacian (2D)
    t,              \* simulate's loop variable: steps done in the current call
    Nt,             \* argument Nt of the current call
    save_every,     \* argument save_every of the current call
    calls,          \* number of simulate calls made on the instance
    seeded,         \* history: the caller assigned phi_history and time_points
    initial_type,   \* argument initial_type of the current call (2D)
    sims,           \* the instances of a parameter sweep, by sweep point
    lists,          \* the list objects the sweep's instances refer to, by identity
    arrays,         \* the ndarray objects of a simulate call and the names bound to them
    analysis        \* a DispersionAnalyzer method call: its arguments, locals, result

vars == <<self, phi_history, time_points, max_amplitude, energy_history, pc,
          phi, phi_prev, laplacian, t, Nt, save_every, calls, seeded, initial_type,
          sims, lists, arrays, analysis>>

(***************************************************************************)
(* VGTSimulation1D                                                         *)
(***************************************************************************)
\* a variant of __init__ that limits the CFL factor to the stability limit 1
VGTSimulation1DClamped(L, Nx, c, omega0, dt_factor, pulse_width) ==
    [kind |-> "VGTSimulation1D", L |-> L, Nx |-> Nx, c |-> c, omega0 |-> omega0,
     dx |-> RDiv(L, RInt(Nx)),
     dt |-> RDiv(RMul(RMin(dt_factor, One), RDiv(L, RInt(Nx))), c),
     pulse_width |-> pulse_width,
     x |-> Linspace(L, Nx)]

\* VGTSimulation1D.__init__
VGTSimulation1D(L, Nx, c, omega0, dt_factor, pulse_width) ==
    [kind |-> "VGTSimulation1D", L |-> L, Nx |-> Nx, c |-> c, omega0 |-> omega0,
     dx |-> RDiv(L, RInt(Nx)),
     dt |-> RDiv(RMul(dt_factor, RDiv(L, RInt(Nx))), c),
     pulse_width |-> pulse_width,
     x |-> Linspace(L, Nx)]

\* the argument of np.exp in gaussian_pulse at grid point i (negated)
GaussExponent(s, center, i) == RDiv(RSq(RSub(s.x[i], center)), s.pulse_width)

\* a variant of gaussian_pulse whose amplitude grows with the number of runs
\* the process has started (a process-wide counter)
gaussian_pulse_counting(s, center, amplitude) ==
    [i \in 1..s.Nx |->
        RMul(RMul(amplitude,
                  RInt(1 + Cardinality({j \in DOMAIN sims : sims[j].pc # "idle"}))),
             ExpNeg(GaussExponent(s, center, i)))]

\* VGTSimulation1D.gaussian_pulse(center, amplitude)
gaussian_pulse(s, center, amplitude) ==
    [i \in 1..s.Nx |-> RMul(amplitude, ExpNeg(GaussExponent(s, center, i)))]

\* d2phi_dx2 at Python index i - 1 (line 84)
D2phiDx2(cur, i, dx) ==
    RDiv(RAdd(RSub(cur[i + 1], RMul(Two, cur[i])), cur[i - 1]), RSq(dx))

\* a variant of the assignment with the sign of the omega0 term reversed
LeapfrogCellGrowing(cur, prev, i, dt, dx, c, omega0) ==
    RAdd(RSub(RMul(Two, cur[i]), prev[i]),
         RMul(RSq(dt), RAdd(RMul(RSq(c), D2phiDx2(cur, i, dx)),
                            RMul(RSq(omega0), cur[i]))))

\* the assignment to phi_next[i] (lines 85-87)
LeapfrogCell(cur, prev, i, dt, dx, c, omega0) ==
    RAdd(RSub(RMul(Two, cur[i]), prev[i]),
         RMul(RSq(dt), RSub(RMul(RSq(c), D2phiDx2(cur, i, dx)),
                            RMul(RSq(omega0), cur[i]))))

\* for i in range(1, Nx - 1): the loop from TLA+ index i on, phi_next so far in nxt
RECURSIVE InteriorLoop(_, _, _, _, _, _, _, _, _)
InteriorLoop(nxt, cur, prev, i, n, dt, dx, c, omega0) ==
    IF i > n - 1 THEN nxt
    ELSE InteriorLoop([nxt EXCEPT ![i] = LeapfrogCell(cur, prev, i, dt, dx, c, omega0)],
                      cur, prev, i + 1, n, dt, dx, c, omega0)

\* phi_next[0] = 0; phi_next[-1] = 0 (lines 90-91)
FixedBoundary(nxt) == [nxt EXCEPT ![1] = Zero, ![Len(nxt)] = Zero]

\* a variant of the loop body that starts phi_next as a copy of phi and leaves
\* the two end cells as the copy has them
SimulateBodyFreeEnds(s, cur, prev) ==
    InteriorLoop(cur, cur, prev, 2, s.Nx, s.dt, s.dx, s.c, s.omega0)

\* the body of simulate's time loop up to the boundary conditions (lines 80-91)
SimulateBody(s, cur, prev) ==
    FixedBoundary(InteriorLoop(ZerosLike(cur), cur, prev, 2, s.Nx,
                               s.dt, s.dx, s.c, s.omega0))

(***************************************************************************)
(* integrated_workflow.py: simulate_wave, update_wave, run_simulation      *)
(***************************************************************************)
\* the locals of run_simulation after simulate_wave and the choice of dt
\* (lines 41-43, 15-16), with its arguments
RunSimulationFrame(L, Nx, c, omega0, pulse_width) ==
    [kind |-> "run_simulation", L |-> L, Nx |-> Nx, c |-> c, omega0 |-> omega0,
     dx |-> RDiv(L, RInt(Nx)),
     dt |-> RDiv(RMul(<<9, 10>>, RDiv(L, RInt(Nx))), c),
     pulse_width |-> pulse_width,
     x |-> Linspace(L, Nx)]

\* simulate_wave's phi (line 18)
simulate_wave(s) ==
    [i \in 1..s.Nx |-> ExpNeg(GaussExponent(s, RDiv(s.L, Two), i))]

\* for i in range(1, Nx-1) of update_wave (lines 29-31)
RECURSIVE UpdateWaveLoop(_, _, _, _, _, _, _, _)
UpdateWaveLoop(nxt, cur, prev, i, dt, dx, c, omega0) ==
    IF i > Len(cur) - 1 THEN nxt
    ELSE UpdateWaveLoop(
           [nxt EXCEPT ![i] =
              RAdd(RSub(RMul(Two, cur[i]), prev[i]),
                   RMul(RSq(dt),
                        RSub(RMul(RSq(c),
                                  RDiv(RAdd(RSub(cur[i + 1], RMul(Two, cur[i])),
                                            cur[i - 1]), RSq(dx))),
                             RMul(RSq(omega0), cur[i]))))],
           cur, prev, i + 1, dt, dx, c, omega0)

\* a variant of update_wave that holds the left boundary at 1
update_wave_driven(cur, prev, dt, dx, c, omega0) ==
    LET looped == UpdateWaveLoop(ZerosLike(cur), cur, prev, 2, dt, dx, c, omega0)
    IN  [looped EXCEPT ![1] = One, ![Len(looped)] = Zero]

\* update_wave(phi, phi_prev, dt, dx, c, omega0) (lines 22-35)
update_wave(cur, prev, dt, dx, c, omega0) ==
    LET looped == UpdateWaveLoop(ZerosLike(cur), cur, prev, 2, dt, dx, c, omega0)
    IN  [looped EXCEPT ![1] = Zero, ![Len(looped)] = Zero]

(***************************************************************************)
(* The arguments the model draws.                                          *)
(***************************************************************************)
PulseWidths == {<<1, 4>>, <<1, 16>>}

\* every np.exp argument of the centred pulse is representable
Representable1D(s) ==
    \A i \in 1..s.Nx : ExpDefined(GaussExponent(s, RDiv(s.L, Two), i))

\* L = Nx - 1, so that the grid points are 0, 1, ..., Nx - 1.  The physical
\* arguments are drawn in two combinations: c = 1, omega0 = 0 with a CFL factor
\* below the stability limit (1/2), and c = 2, omega0 = 2/dx with one above it (2)
Instances1D ==
    {s \in UNION {{VGTSimulation1D(RInt(n - 1), n, One, Zero, <<1, 2>>, pw),
                   VGTSimulation1D(RInt(n - 1), n, Two, RDiv(RInt(2 * n), RInt(n - 1)),
                                   Two, pw)} :
                  n \in 3..MaxNx, pw \in PulseWidths} :
        Representable1D(s)}

Frames1D ==
    {s \in UNION {{RunSimulationFrame(RInt(n - 1), n, One, Zero, pw),
                   RunSimulationFrame(RInt(n - 1), n, One,
                                      RDiv(RInt(2 * n), RInt(n - 1)), pw)} :
                  n \in 3..MaxNx, pw \in PulseWidths} :
        Representable1D(s)}

\* test vectors for direct calls of update_wave: scaled unit impulses, a constant
\* and the null field
TestVectors(n) ==
    {[i \in 1..n |-> IF i = k THEN v ELSE Zero] : k \in 1..n, v \in {One, RInt(-2)}}
        \cup {[i \in 1..n |-> One], [i \in 1..n |-> Zero]}

\* dt, dx, c, omega0 for direct calls of update_wave
DirectArgs ==
    {[kind |-> "update_wave", dt |-> One, dx |-> One, c |-> One, omega0 |-> Zero],
     [kind |-> "update_wave", dt |-> <<1, 2>>, dx |-> One, c |-> Two, omega0 |-> One],
     [kind |-> "update_wave", dt |-> One, dx |-> <<1, 2>>, c |-> One, omega0 |-> Two]}

(***************************************************************************)
(* Initial states: a constructed instance, before any call.                *)
(***************************************************************************)
Idle ==
    /\ phi_history = <<>>
    /\ time_points = <<>>
    /\ max_amplitude = <<>>
    /\ energy_history = <<>>
    /\ pc = "idle"
    /\ phi = <<>>
    /\ phi_prev = <<>>
    /\ laplacian = <<>>
    /\ t = 0
    /\ Nt = 0
    /\ save_every = 0
    /\ calls = 0
    /\ seeded = FALSE
    /\ initial_type = ""
    /\ sims = <<>>
    /\ lists = <<>>
    /\ arrays = <<>>
    /\ analysis = <<>>

\* sim = VGTSimulation1D(...)
InitVGT1D == self \in Instances1D /\ Idle

\* run_simulation(...) about to be called
InitRunSimulation == self \in Frames1D /\ Idle

\* update_wave about to be called on arbitrary arrays, in run_simulation's loop
InitUpdateWave ==
    /\ self \in DirectArgs
    /\ \E n \in 3..MaxNx :
         /\ phi \in TestVectors(n)
         /\ phi_prev \in TestVectors(n)
    /\ phi_history = <<phi>>
    /\ time_points = <<>>
    /\ max_amplitude = <<>>
    /\ energy_history = <<>>
    /\ pc = "loop"
    /\ laplacian = <<>>
    /\ t = 0
    /\ Nt = MaxNt
    /\ save_every = 0
    /\ calls = 1
    /\ seeded = FALSE
    /\ initial_type = ""
    /\ sims = <<>>
    /\ lists = <<>>
    /\ arrays = <<>>
    /\ analysis = <<>>

Init1D == InitVGT1D \/ InitRunSimulation \/ InitUpdateWave

(***************************************************************************)
(* VGTSimulation1D.simulate(Nt, save_every)                                *)
(***************************************************************************)
\* the call up to the time loop (lines 69-76); with Nt = 0 it returns at once
SimulateCall1D ==
    /\ self.kind = "VGTSimulation1D"
    /\ pc \in {"idle", "returned", "raised"}
    /\ calls < MaxRuns
    /\ LET p == gaussian_pulse(self, RDiv(self.L, Two), One)
       IN  /\ phi' = p
           /\ phi_prev' = p
           /\ phi_history' = Append(phi_history, p)
           /\ time_points' = Append(time_points, Zero)
           /\ max_amplitude' = Append(max_amplitude, MaxAbs(p))
    /\ t' = 0
    /\ \E nt \in 0..MaxNt, se \in 0..MaxSave :
         /\ Nt' = nt
         /\ save_every' = se
         /\ pc' = IF nt = 0 THEN "returned" ELSE "loop"
    /\ calls' = calls + 1
    /\ UNCHANGED <<seeded, initial_type, sims, lists, arrays, analysis>>
    /\ UNCHANGED <<self, energy_history, laplacian>>

\* a variant of the snapshot condition that fires one step late
SnapshotDueLate(tt, se) == (tt - 1) % se = 0

\* if t % save_every == 0 (line 98)
SnapshotDue(tt, se) == tt % se = 0

\* one iteration of the time loop (lines 79-102); t % save_every raises
\* ZeroDivisionError when save_every = 0, after the fields were rotated
SimulateStep1D ==
    /\ self.kind = "VGTSimulation1D"
    /\ pc = "loop"
    /\ LET phi_next == SimulateBody(self, phi, phi_prev)
           tt == t + 1
       IN  /\ phi_prev' = phi
           /\ phi' = phi_next
           /\ t' = tt
           /\ IF save_every = 0
              THEN /\ pc' = "raised"
                   /\ UNCHANGED <<phi_history, time_points, max_amplitude>>
              ELSE /\ phi_history' = IF SnapshotDue(tt, save_every)
                                     THEN Append(phi_history, phi_next)
                                     ELSE phi_history
                   /\ time_points' = IF SnapshotDue(tt, save_every)
                                     THEN Append(time_points, RMul(RInt(tt), self.dt))
                                     ELSE time_points
                   /\ max_amplitude' = Append(max_amplitude, MaxAbs(phi_next))
                   /\ pc' = IF tt = Nt THEN "returned" ELSE "loop"
    /\ UNCHANGED <<seeded, initial_type, sims, lists, arrays, analysis>>
    /\ UNCHANGED <<self, energy_history, laplacian, Nt, save_every, calls>>

(***************************************************************************)
(* integrated_workflow.run_simulation(..., Nt, ...)                        *)
(***************************************************************************)
\* the call up to the loop (lines 41-44)
RunSimulationCall ==
    /\ self.kind = "run_simulation"
    /\ pc = "idle"
    /\ LET p == simulate_wave(self)
       IN  /\ phi' = p
           /\ phi_prev' = p
           /\ phi_history' = <<p>>
    /\ t' = 0
    /\ \E nt \in 0..MaxNtWorkflow :
         /\ Nt' = nt
         /\ pc' = IF nt = 0 THEN "returned" ELSE "loop"
    /\ calls' = calls + 1
    /\ UNCHANGED <<seeded, initial_type, sims, lists, arrays, analysis>>
    /\ UNCHANGED <<self, time_points, max_amplitude, energy_history, laplacian,
                   save_every>>

\* one iteration of the loop (lines 45-48)
RunSimulationStep ==
    /\ self.kind \in {"run_simulation", "update_wave"}
    /\ pc = "loop"
    /\ LET phi_next == update_wave(phi, phi_prev, self.dt, self.dx, self.c, self.omega0)
       IN  /\ phi_prev' = phi
           /\ phi' = phi_next
           /\ phi_history' = Append(phi_history, phi_next)
    /\ t' = t + 1
    /\ pc' = IF t + 1 = Nt THEN "returned" ELSE "loop"
    /\ UNCHANGED <<seeded, initial_type, sims, lists, arrays, analysis>>
    /\ UNCHANGED <<self, time_points, max_amplitude, energy_history, laplacian,
                   Nt, save_every, calls>>

Next1D ==
    \/ SimulateCall1D
    \/ SimulateStep1D
    \/ RunSimulationCall
    \/ RunSimulationStep

Spec1D == Init1D /\ [][Next1D]_vars

(***************************************************************************)
(* numpy 2D arrays: a sequence of rows.                                    *)
(***************************************************************************)
Rows(m) == Len(m)
Cols(m) == Len(m[1])

\* m[r0-1:r1, c0-1:c1] in Python terms: rows r0..r1 and columns c0..c1
Slice(m, r0, r1, c0, c1) ==
    [i \in 1..(r1 - r0 + 1) |-> [j \in 1..(c1 - c0 + 1) |-> m[r0 + i - 1][c0 + j - 1]]]

MAdd(a, b) == [i \in 1..Rows(a) |-> [j \in 1..Cols(a) |-> RAdd(a[i][j], b[i][j])]]
MSub(a, b) == [i \in 1..Rows(a) |-> [j \in 1..Cols(a) |-> RSub(a[i][j], b[i][j])]]
MScale(k, a) == [i \in 1..Rows(a) |-> [j \in 1..Cols(a) |-> RMul(k, a[i][j])]]
MDiv(a, k) == [i \in 1..Rows(a) |-> [j \in 1..Cols(a) |-> RDiv(a[i][j], k)]]
ZerosLike2(a) == [i \in 1..Rows(a) |-> [j \in 1..Cols(a) |-> Zero]]

\* m[r, :] = 0 and m[:, c] = 0
ZeroRow(m, r) == [m EXCEPT ![r] = [j \in 1..Cols(m) |-> Zero]]
ZeroCol(m, c) == [i \in 1..Rows(m) |-> [m[i] EXCEPT ![c] = Zero]]

(***************************************************************************)
(* VGTSimulation2D                                                         *)
(***************************************************************************)
\* VGTSimulation2D.__init__; np.meshgrid(x, y) gives arrays of shape (Ny, Nx)
VGTSimulation2D(Lx, Ly, Nx, Ny, c, omega0, dt_factor) ==
    [kind |-> "VGTSimulation2D", Lx |-> Lx, Ly |-> Ly, Nx |-> Nx, Ny |-> Ny,
     c |-> c, omega0 |-> omega0,
     dx |-> RDiv(Lx, RInt(Nx)),
     dy |-> RDiv(Ly, RInt(Ny)),
     dt |-> RDiv(RMul(dt_factor, RMin(RDiv(Lx, RInt(Nx)), RDiv(Ly, RInt(Ny)))), c),
     x |-> Linspace(Lx, Nx),
     y |-> Linspace(Ly, Ny),
     X |-> [r \in 1..Ny |-> [k \in 1..Nx |-> Linspace(Lx, Nx)[k]]],
     Y |-> [r \in 1..Ny |-> [k \in 1..Nx |-> Linspace(Ly, Ny)[r]]]]

\* r2 of gaussian_pulse_2d (line 61)
R2(s, center, r, k) ==
    RAdd(RSq(RSub(s.X[r][k], center[1])), RSq(RSub(s.Y[r][k], center[2])))

\* VGTSimulation2D.gaussian_pulse_2d(center, width, amplitude)
gaussian_pulse_2d(s, center, width, amplitude) ==
    [r \in 1..Rows(s.X) |-> [k \in 1..Cols(s.X) |->
        RMul(amplitude, ExpNeg(RDiv(R2(s, center, r, k), RSq(width))))]]

\* VGTSimulation2D.ring_pulse(center, radius, width, amplitude)
ring_pulse(s, center, radius, width, amplitude) ==
    [r \in 1..Rows(s.X) |-> [k \in 1..Cols(s.X) |->
        RMul(amplitude,
             ExpNeg(RDiv(RSq(RSub(Sqrt(R2(s, center, r, k)), radius)), RSq(width))))]]

\* the default center (Lx/2, Ly/2)
DefaultCenter(s) == <<RDiv(s.Lx, Two), RDiv(s.Ly, Two)>>

\* a variant of laplacian_2d that divides the axis-1 difference by dy**2 and the
\* axis-0 difference by dx**2
laplacian_2d_swapped(s, m) ==
    LET R == Rows(m)
        C == Cols(m)
        mid == Slice(m, 2, R - 1, 2, C - 1)
        inner ==
            MAdd(MDiv(MAdd(MSub(Slice(m, 2, R - 1, 3, C), MScale(Two, mid)),
                           Slice(m, 2, R - 1, 1, C - 2)), RSq(s.dy)),
                 MDiv(MAdd(MSub(Slice(m, 3, R, 2, C - 1), MScale(Two, mid)),
                           Slice(m, 1, R - 2, 2, C - 1)), RSq(s.dx)))
    IN  [r \in 1..R |-> [k \in 1..C |->
            IF r \in 2..(R - 1) /\ k \in 2..(C - 1) THEN inner[r - 1][k - 1] ELSE Zero]]

\* VGTSimulation2D.laplacian_2d(phi)
laplacian_2d(s, m) ==
    LET R == Rows(m)
        C == Cols(m)
        mid == Slice(m, 2, R - 1, 2, C - 1)
        inner ==
            MAdd(MDiv(MAdd(MSub(Slice(m, 2, R - 1, 3, C), MScale(Two, mid)),
                           Slice(m, 2, R - 1, 1, C - 2)), RSq(s.dx)),
                 MDiv(MAdd(MSub(Slice(m, 3, R, 2, C - 1), MScale(Two, mid)),
                           Slice(m, 1, R - 2, 2, C - 1)), RSq(s.dy)))
    IN  [r \in 1..R |-> [k \in 1..C |->
            IF r \in 2..(R - 1) /\ k \in 2..(C - 1) THEN inner[r - 1][k - 1] ELSE Zero]]

\* phi_next of the update (lines 118-120)
UpdateField(s, cur, prev, lap) ==
    MAdd(MSub(MScale(Two, cur), prev),
         MScale(RSq(s.dt), MSub(MScale(RSq(s.c), lap), MScale(RSq(s.omega0), cur))))

\* a variant of the boundary conditions that sets the first and last row only
FixedBoundaryRows(m) == ZeroRow(ZeroRow(m, 1), Rows(m))

\* the fixed boundary conditions (lines 123-126)
FixedBoundary2D(m) == ZeroCol(ZeroCol(ZeroRow(ZeroRow(m, 1), Rows(m)), 1), Cols(m))

\* np.gradient(v, h) along a vector of at least 2 points
Gradient(v, h) ==
    [i \in 1..Len(v) |->
        IF i = 1 THEN RDiv(RSub(v[2], v[1]), h)
        ELSE IF i = Len(v) THEN RDiv(RSub(v[Len(v)], v[Len(v) - 1]), h)
        ELSE RDiv(RSub(v[i + 1], v[i - 1]), RMul(Two, h))]

RECURSIVE Cells(_, _)
\* the first n entries of the sequence v, written out one by one
Cells(v, n) == IF n = 0 THEN <<>> ELSE Append(Cells(v, n - 1), v[n])

RECURSIVE RowsOf(_, _)
\* the first n rows of the 2D array m, written out cell by cell
RowsOf(m, n) == IF n = 0 THEN <<>> ELSE Append(RowsOf(m, n - 1), Cells(m[n], Len(m[n])))

RECURSIVE SumTo(_, _, _)
\* sum of f[1..n][1..cols], row-major, from flat index i on
SumTo(f, i, cols) ==
    IF i > Rows(f) * cols THEN Zero
    ELSE RAdd(f[((i - 1) \div cols) + 1][((i - 1) % cols) + 1], SumTo(f, i + 1, cols))

\* np.sum of a 2D array
MSum(f) == SumTo(f, 1, Cols(f))

\* the number VGTSimulation2D.compute_energy(phi, phi_prev) returns (lines 143-152)
EnergyValue(s, cur, prev) ==
    LET dphi_dt == MDiv(MSub(cur, prev), s.dt)
        squares == [r \in 1..Rows(cur) |-> [k \in 1..Cols(cur) |-> RSq(dphi_dt[r][k])]]
        kinetic ==
            RMul(RMul(RMul(<<1, 2>>, MSum(RowsOf(squares, Rows(cur)))), s.dx), s.dy)
        grad_x == [r \in 1..Rows(cur) |-> Gradient(cur[r], s.dx)]
        grad_y == [r \in 1..Rows(cur) |-> [k \in 1..Cols(cur) |->
                      Gradient([q \in 1..Rows(cur) |-> cur[q][k]], s.dy)[r]]]
        density == [r \in 1..Rows(cur) |-> [k \in 1..Cols(cur) |->
                       RAdd(RAdd(RSq(grad_x[r][k]), RSq(grad_y[r][k])),
                            RMul(RSq(s.omega0), RSq(cur[r][k])))]]
        potential ==
            RMul(RMul(RMul(<<1, 2>>, MSum(RowsOf(density, Rows(cur)))), s.dx), s.dy)
    IN  RAdd(kinetic, potential)

(***************************************************************************)
(* An entry of energy_history.  The squares of compute_energy exceed the   *)
(* integers of TLC after a step or two, so an entry is kept as the         *)
(* call that made it, compute_energy(phi, phi_prev): its number is         *)
(* EnergyValue(self, e.phi, e.phi_prev).                                   *)
(***************************************************************************)
compute_energy(s, cur, prev) == [phi |-> cur, phi_prev |-> prev]

(***************************************************************************)
(* extended_workflow.py: update_2d on arrays indexed [x, y]                *)
(***************************************************************************)
\* a variant of the assignment that divides the difference along x by dy^2 and
\* the difference along y by dx^2
Update2DCellSwapped(cur, prev, i, j, dt, dx, dy, c, omega0) ==
    LET d2phi_dx2 == RDiv(RAdd(RSub(cur[i + 1][j], RMul(Two, cur[i][j])), cur[i - 1][j]),
                          RSq(dy))
        d2phi_dy2 == RDiv(RAdd(RSub(cur[i][j + 1], RMul(Two, cur[i][j])), cur[i][j - 1]),
                          RSq(dx))
    IN  RAdd(RSub(RMul(Two, cur[i][j]), prev[i][j]),
             RMul(RSq(dt), RSub(RMul(RSq(c), RAdd(d2phi_dx2, d2phi_dy2)),
                                RMul(RSq(omega0), cur[i][j]))))

\* the assignment to phi_next[i, j] (lines 33-36), TLA+ indices i, j
Update2DCell(cur, prev, i, j, dt, dx, dy, c, omega0) ==
    LET d2phi_dx2 == RDiv(RAdd(RSub(cur[i + 1][j], RMul(Two, cur[i][j])), cur[i - 1][j]),
                          RSq(dx))
        d2phi_dy2 == RDiv(RAdd(RSub(cur[i][j + 1], RMul(Two, cur[i][j])), cur[i][j - 1]),
                          RSq(dy))
    IN  RAdd(RSub(RMul(Two, cur[i][j]), prev[i][j]),
             RMul(RSq(dt), RSub(RMul(RSq(c), RAdd(d2phi_dx2, d2phi_dy2)),
                                RMul(RSq(omega0), cur[i][j]))))

\* update_2d(phi, phi_prev, dt, dx, dy, c, omega0) (lines 24-39)
update_2d(cur, prev, dt, dx, dy, c, omega0) ==
    LET looped ==
            [i \in 1..Rows(cur) |-> [j \in 1..Cols(cur) |->
                IF i \in 2..(Rows(cur) - 1) /\ j \in 2..(Cols(cur) - 1)
                THEN Update2DCell(cur, prev, i, j, dt, dx, dy, c, omega0)
                ELSE Zero]]
    IN  ZeroCol(ZeroCol(ZeroRow(ZeroRow(looped, 1), Rows(looped)), 1), Cols(looped))

(***************************************************************************)
(* The 2D arguments the model draws.                                       *)
(***************************************************************************)
\* <<Lx, Ly, Nx, Ny>>: a square grid, dx # dy, Nx < Ny, Nx > Ny, and a grid on
\* which the ring pulse is representable
Grids2D ==
    {g \in {<<4, 4, 3, 3>>, <<4, 8, 3, 3>>, <<4, 8, 3, 5>>, <<8, 4, 5, 3>>, <<6, 8, 3, 3>>} :
        g[3] <= MaxNx /\ g[4] <= MaxNx}

\* simulate's gaussian_pulse_2d() is representable on the grid of s
GaussianRepresentable(s, center) ==
    \A r \in 1..s.Ny, k \in 1..s.Nx : ExpDefined(R2(s, center, r, k))

\* simulate's ring_pulse() (radius 3.0, width 0.5) is representable on the grid of s
RingRepresentable(s) ==
    \A r \in 1..s.Ny, k \in 1..s.Nx :
        /\ SqrtDefined(R2(s, DefaultCenter(s), r, k))
        /\ ExpDefined(RDiv(RSq(RSub(Sqrt(R2(s, DefaultCenter(s), r, k)), RInt(3))),
                           RSq(<<1, 2>>)))

\* the initial_type values the model passes; "spiral" is no initial condition
InitialTypes == {"gaussian", "ring", "spiral"}

Drawable(s, ty) ==
    /\ ty = "gaussian" => GaussianRepresentable(s, DefaultCenter(s))
    /\ ty = "ring" => RingRepresentable(s)

\* c = 1; omega0 = 0 with the CFL factor 1/2 (below the limit 1/sqrt(2)), and
\* omega0 = 2/min(dx, dy) with the CFL factor 1 (above it)
\* the constructor's default c = 1.0, omega0 = 2.0 and dt_factor = 0.5 (line 17) on
\* the smallest grid
DefaultParameters2D == {VGTSimulation2D(RInt(4), RInt(4), 3, 3, One, Two, <<1, 2>>)}

Instances2D ==
    {s \in DefaultParameters2D \cup
           UNION {{VGTSimulation2D(RInt(g[1]), RInt(g[2]), g[3], g[4], One, Zero, <<1, 2>>),
                   VGTSimulation2D(RInt(g[1]), RInt(g[2]), g[3], g[4], One,
                                   RDiv(Two, RMin(RDiv(RInt(g[1]), RInt(g[3])),
                                                  RDiv(RInt(g[2]), RInt(g[4])))),
                                   One)} :
                  g \in Grids2D} :
        \E ty \in {"gaussian", "ring"} : Drawable(s, ty)}

\* test arrays for direct calls of update_2d
TestMatrices(nx, ny) ==
    {[i \in 1..nx |-> [j \in 1..ny |-> IF <<i, j>> = q THEN v ELSE Zero]] :
        q \in (1..nx) \X (1..ny), v \in {One, RInt(-2)}}
      \cup {[i \in 1..nx |-> [j \in 1..ny |-> One]]}

DirectArgs2D ==
    {[kind |-> "update_2d", dt |-> One, dx |-> One, dy |-> Two, c |-> One, omega0 |-> Zero],
     [kind |-> "update_2d", dt |-> <<1, 2>>, dx |-> Two, dy |-> One, c |-> Two,
      omega0 |-> One]}

\* sim = VGTSimulation2D(...)
InitVGT2D == self \in Instances2D /\ Idle

\* update_2d about to be called on arbitrary arrays, in run_2d_simulation's loop
InitUpdate2D ==
    /\ self \in DirectArgs2D
    /\ \E nx \in 3..MaxNx, ny \in 3..MaxNx :
         /\ phi \in TestMatrices(nx, ny)
         /\ phi_prev \in {phi, [i \in 1..nx |-> [j \in 1..ny |-> One]]}
    /\ phi_history = <<phi>>
    /\ time_points = <<>>
    /\ max_amplitude = <<>>
    /\ energy_history = <<>>
    /\ pc = "loop"
    /\ laplacian = <<>>
    /\ t = 0
    /\ Nt = MaxNt
    /\ save_every = 0
    /\ calls = 1
    /\ seeded = FALSE
    /\ initial_type = ""
    /\ sims = <<>>
    /\ lists = <<>>
    /\ arrays = <<>>
    /\ analysis = <<>>

Init2D == InitVGT2D \/ InitUpdate2D

(***************************************************************************)
(* demonstrate_interference / demo_interference: the two sources are set   *)
(* as phi_history and time_points of the new instance (lines 306-311).     *)
(* The sources sit on the first and last grid point of the middle line.    *)
(***************************************************************************)
SourceCenters(s) == <<<<s.x[1], RDiv(s.Ly, Two)>>, <<s.x[s.Nx], RDiv(s.Ly, Two)>>>>
SourceAmplitude == <<7, 10>>

\* phi1 + phi2 (lines 306-307, 310)
Superposition(s) ==
    MAdd(gaussian_pulse_2d(s, SourceCenters(s)[1], One, SourceAmplitude),
         gaussian_pulse_2d(s, SourceCenters(s)[2], One, SourceAmplitude))

SetInitialCondition ==
    /\ self.kind = "VGTSimulation2D"
    /\ pc = "idle"
    /\ phi_history = <<>>
    /\ GaussianRepresentable(self, SourceCenters(self)[1])
    /\ GaussianRepresentable(self, SourceCenters(self)[2])
    /\ phi_history' = <<Superposition(self)>>
    /\ time_points' = <<Zero>>
    /\ seeded' = TRUE
    /\ UNCHANGED <<initial_type, sims, lists, arrays, analysis>>
    /\ UNCHANGED <<self, max_amplitude, energy_history, pc, phi, phi_prev, laplacian,
                   t, Nt, save_every, calls>>

(***************************************************************************)
(* VGTSimulation2D.simulate(Nt, save_every, initial_type)                  *)
(***************************************************************************)
\* the field of lines 98-101
InitialField(s, ty) ==
    IF ty = "gaussian" THEN gaussian_pulse_2d(s, DefaultCenter(s), One, One)
    ELSE ring_pulse(s, DefaultCenter(s), RInt(3), <<1, 2>>, One)

\* a variant of the selection that substitutes a pulse the grid can hold for an
\* unknown initial_type
SelectInitialDefault(s, ty) ==
    [raised |-> FALSE,
     phi |-> InitialField(s, IF ty \in {"gaussian", "ring"} THEN ty
                             ELSE IF GaussianRepresentable(s, DefaultCenter(s))
                                  THEN "gaussian" ELSE "ring")]

\* the if / elif / else of lines 98-103: the initial field, or ValueError
SelectInitial(s, ty) ==
    IF ty \in {"gaussian", "ring"} THEN [raised |-> FALSE, phi |-> InitialField(s, ty)]
    ELSE [raised |-> TRUE]

\* the call up to the time loop (lines 97-110); an unknown initial_type raises
\* ValueError on line 103
SimulateCall2D ==
    /\ self.kind = "VGTSimulation2D"
    /\ pc \in {"idle", "returned", "raised"}
    /\ calls < MaxRuns
    /\ calls' = calls + 1
    /\ \E ty \in InitialTypes :
         /\ Drawable(self, ty)
         /\ initial_type' = ty
         /\ IF SelectInitial(self, ty).raised
            THEN /\ pc' = "raised"
                 /\ UNCHANGED <<phi, phi_prev, phi_history, time_points, energy_history,
                                t, Nt, save_every>>
            ELSE /\ LET p == SelectInitial(self, ty).phi
                    IN  /\ phi' = p
                        /\ phi_prev' = p
                        /\ phi_history' = Append(phi_history, p)
                        /\ time_points' = Append(time_points, Zero)
                        /\ energy_history' =
                               Append(energy_history, compute_energy(self, p, p))
                 /\ t' = 0
                 /\ \E nt \in 0..MaxNt, se \in 0..MaxSave :
                      /\ Nt' = nt
                      /\ save_every' = se
                      /\ pc' = IF nt = 0 THEN "returned" ELSE "loop"
    /\ UNCHANGED <<seeded, sims, lists, arrays, analysis>>
    /\ UNCHANGED <<self, max_amplitude, laplacian>>

\* if t % save_every == 0 (line 133)
SnapshotDue2D(tt, se) == tt % se = 0

\* one iteration of the time loop (lines 113-136)
SimulateStep2D ==
    /\ self.kind = "VGTSimulation2D"
    /\ pc = "loop"
    /\ LET lap == laplacian_2d(self, phi)
           phi_next == FixedBoundary2D(UpdateField(self, phi, phi_prev, lap))
           tt == t + 1
       IN  /\ laplacian' = lap
           /\ phi_prev' = phi
           /\ phi' = phi_next
           /\ t' = tt
           /\ IF save_every = 0
              THEN /\ pc' = "raised"
                   /\ UNCHANGED <<phi_history, time_points, energy_history>>
              ELSE /\ phi_history' = IF SnapshotDue2D(tt, save_every)
                                     THEN Append(phi_history, phi_next)
                                     ELSE phi_history
                   /\ time_points' = IF SnapshotDue2D(tt, save_every)
                                     THEN Append(time_points, RMul(RInt(tt), self.dt))
                                     ELSE time_points
                   /\ energy_history' = IF SnapshotDue2D(tt, save_every)
                                        THEN Append(energy_history,
                                                    compute_energy(self, phi_next, phi))
                                        ELSE energy_history
                   /\ pc' = IF tt = Nt THEN "returned" ELSE "loop"
    /\ UNCHANGED <<seeded, initial_type, sims, lists, arrays, analysis>>
    /\ UNCHANGED <<self, max_amplitude, Nt, save_every, calls>>

\* one iteration of run_2d_simulation's loop (extended_workflow.py lines 51-54)
Run2DStep ==
    /\ self.kind = "update_2d"
    /\ pc = "loop"
    /\ LET phi_next == update_2d(phi, phi_prev, self.dt, self.dx, self.dy, self.c,
                                 self.omega0)
       IN  /\ phi_prev' = phi
           /\ phi' = phi_next
           /\ phi_history' = Append(phi_history, phi_next)
    /\ t' = t + 1
    /\ pc' = IF t + 1 = Nt THEN "returned" ELSE "loop"
    /\ UNCHANGED <<seeded, initial_type, sims, lists, arrays, analysis>>
    /\ UNCHANGED <<self, time_points, max_amplitude, energy_history, laplacian,
                   Nt, save_every, calls>>

Next2D ==
    \/ SetInitialCondition
    \/ SimulateCall2D
    \/ SimulateStep2D
    \/ Run2DStep

Spec2D == Init2D /\ [][Next2D]_vars

(***************************************************************************)
(* Both engines.                                                           *)
(***************************************************************************)
Init == Init1D \/ Init2D
Next == Next1D \/ Next2D
Spec == Init /\ [][Next]_vars

(***************************************************************************)
(* Properties of the 1D step.                                              *)
(***************************************************************************)
OneD == {"VGTSimulation1D", "run_simulation", "update_wave"}
Engines == {"VGTSimulation1D", "VGTSimulation2D"}

\* C1: after every step of the 1D time loop (VGTSimulation1D.simulate and
\* update_wave alike) the first and the last cell of the current field are
\* exactly 0, whatever the two fields, dt, dx, c and omega0 were before the step.
BoundaryInvariant1D ==
    (self.kind \in OneD /\ t >= 1) => (phi[1] = Zero /\ phi[Len(phi)] = Zero)

\* a step was made from a field whose end cells were not 0, and it moved the
\* interior
BoundaryInvariant1DWitness ==
    /\ self.kind \in OneD
    /\ t >= 1
    /\ phi_prev[1] # Zero
    /\ phi_prev[Len(phi_prev)] # Zero
    /\ \E i \in 2..(Len(phi) - 1) : phi[i] # Zero /\ phi[i] # phi_prev[i]
    /\ phi[1] = Zero /\ phi[Len(phi)] = Zero

\* the recurrence of the scheme at cell i, from the fields before the step
Recurrence(cur, prev, i, dt, dx, c, omega0) ==
    RAdd(RSub(RMul(Two, cur[i]), prev[i]),
         RMul(RSq(dt),
              RSub(RDiv(RMul(RSq(c), RAdd(RSub(cur[i + 1], RMul(Two, cur[i])), cur[i - 1])),
                        RSq(dx)),
                   RMul(RSq(omega0), cur[i]))))

\* C3: one step of the 1D loop gives every interior cell the leapfrog value
\* 2*cur[i] - prev[i] + dt^2*(c^2*(cur[i+1] - 2*cur[i] + cur[i-1])/dx^2
\* - omega0^2*cur[i]) computed from the fields before the step, and then the
\* new previous field is the old current one and the new current one is next.
LeapfrogStep1D ==
    [][(self.kind \in OneD /\ t' = t + 1) =>
         /\ phi_prev' = phi
         /\ Len(phi') = Len(phi)
         /\ \A i \in 2..(Len(phi) - 1) :
              phi'[i] = Recurrence(phi, phi_prev, i, self.dt, self.dx, self.c, self.omega0)]_vars

\* the engine has made two steps with omega0 > 0, and the second one changed
\* an interior cell that was not 0
LeapfrogStep1DWitness ==
    /\ self.kind = "VGTSimulation1D"
    /\ self.omega0 # Zero
    /\ t >= 2
    /\ \E i \in 2..(Len(phi) - 1) :
         /\ phi[i] # phi_prev[i]
         /\ phi[i] # Zero
         /\ phi_prev[i] # Zero

(***************************************************************************)
(* Properties of the 2D step.                                              *)
(***************************************************************************)
TwoD == {"VGTSimulation2D", "update_2d"}

\* every cell of the four edges of m is 0
EdgesZero(m) ==
    \A r \in 1..Rows(m) : \A k \in 1..Cols(m) :
        (r \in {1, Rows(m)} \/ k \in {1, Cols(m)}) => m[r][k] = Zero

\* C2: after every step of the 2D time loop (VGTSimulation2D.simulate and
\* update_2d alike) every cell of the first and last row and of the first and
\* last column of the current field is exactly 0, also when Nx differs from Ny.
BoundaryInvariant2D ==
    (self.kind \in TwoD /\ t >= 1) => EdgesZero(phi)

\* the engine made a step on a grid with Nx # Ny from a field with non-zero
\* edge cells in a row and in a column
BoundaryInvariant2DWitness ==
    /\ self.kind = "VGTSimulation2D"
    /\ self.Nx # self.Ny
    /\ t >= 1
    /\ \E k \in 2..(Cols(phi_prev) - 1) : phi_prev[1][k] # Zero
    /\ \E r \in 2..(Rows(phi_prev) - 1) : phi_prev[r][Cols(phi_prev)] # Zero
    /\ \E r \in 2..(Rows(phi) - 1) : \E k \in 2..(Cols(phi) - 1) : phi[r][k] # Zero
    /\ EdgesZero(phi)

\* the five-point value at row r (y index) and column k (x index)
FivePoint(s, m, r, k) ==
    RAdd(RDiv(RAdd(RSub(m[r][k + 1], RMul(Two, m[r][k])), m[r][k - 1]), RSq(s.dx)),
         RDiv(RAdd(RSub(m[r + 1][k], RMul(Two, m[r][k])), m[r - 1][k]), RSq(s.dy)))

\* C4: the Laplacian the engine computes in a step is, at every interior cell,
\* the second difference along the axis with Nx points over dx^2 plus the
\* second difference along the axis with Ny points over dy^2, and 0 on every
\* edge cell; the field it was given is unchanged (it becomes phi_prev).  This
\* also holds when Nx # Ny and dx # dy.
LaplacianFivePoint ==
    [][(self.kind = "VGTSimulation2D" /\ t' = t + 1) =>
         /\ phi_prev' = phi
         /\ Rows(phi) = self.Ny /\ Cols(phi) = self.Nx
         /\ Rows(laplacian') = self.Ny /\ Cols(laplacian') = self.Nx
         /\ \A r \in 1..self.Ny : \A k \in 1..self.Nx :
              laplacian'[r][k] =
                 IF r \in 2..(self.Ny - 1) /\ k \in 2..(self.Nx - 1)
                 THEN FivePoint(self, phi, r, k) ELSE Zero]_vars

\* a step on a grid with Nx # Ny and dx # dy whose Laplacian is not 0 inside
\* and whose two second differences differ
LaplacianFivePointWitness ==
    /\ self.kind = "VGTSimulation2D"
    /\ self.Nx # self.Ny
    /\ self.dx # self.dy
    /\ t >= 1
    /\ laplacian # <<>>
    /\ \E r \in 2..(self.Ny - 1) : \E k \in 2..(self.Nx - 1) :
         /\ laplacian[r][k] # Zero
         /\ RSub(phi_prev[r][k + 1], phi_prev[r][k]) # RSub(phi_prev[r + 1][k], phi_prev[r][k])

(***************************************************************************)
(* Properties of the recorded histories.                                   *)
(***************************************************************************)
\* the array m written out cell by cell (m itself, as a value)
Tabulated(s, m) ==
    IF s.kind = "VGTSimulation1D" THEN Cells(m, Len(m)) ELSE RowsOf(m, Len(m))

\* <<phi, phi_prev>> one step of the engine's loop later
Advance(s, pair) ==
    IF s.kind = "VGTSimulation1D"
    THEN <<Tabulated(s, SimulateBody(s, pair[1], pair[2])), pair[1]>>
    ELSE <<Tabulated(s, FixedBoundary2D(UpdateField(s, pair[1], pair[2],
                                                    laplacian_2d(s, pair[1])))),
           pair[1]>>

RECURSIVE Evolve(_, _, _)
Evolve(s, pair, n) ==
    IF n = 0 THEN pair
    ELSE CHOOSE r \in {Evolve(s, p, n - 1) : p \in {Advance(s, pair)}} : TRUE

\* the field after exactly n steps from the initial field f0
FieldAfter(s, f0, n) == Evolve(s, <<f0, f0>>, n)[1]

\* f0 is an initial field the engine's generators make
IsInitialField(s, f0) ==
    IF s.kind = "VGTSimulation1D"
    THEN f0 = gaussian_pulse(s, RDiv(s.L, Two), One)
    ELSE \E ty \in {"gaussian", "ring"} : Drawable(s, ty) /\ f0 = InitialField(s, ty)

\* simulate has returned from its first call on an instance nothing else touched
FirstRunDone ==
    /\ self.kind \in Engines
    /\ pc = "returned"
    /\ calls = 1
    /\ ~seeded

\* C5: when simulate(Nt, save_every) with save_every >= 1 returns on a fresh
\* engine (1D or 2D), phi_history and time_points have 1 + floor(Nt/save_every)
\* entries; entry k is the field after exactly k*save_every steps (entry 0 the
\* initial field), time_points[k] = k*save_every*dt, and the times increase
\* strictly.
SnapshotCadence ==
    (FirstRunDone /\ save_every >= 1) =>
        LET n == Nt \div save_every
        IN  /\ Len(phi_history) = 1 + n
            /\ Len(time_points) = 1 + n
            /\ IsInitialField(self, phi_history[1])
            /\ \A k \in 0..n :
                 /\ phi_history[k + 1] = FieldAfter(self, phi_history[1], k * save_every)
                 /\ time_points[k + 1] = RMul(RInt(k * save_every), self.dt)
            /\ \A k \in 1..n : RLess(time_points[k], time_points[k + 1])

\* a 2D run of 3 steps with save_every = 2 returned: two snapshots, and the
\* last field was not stored
SnapshotCadenceWitness ==
    /\ FirstRunDone
    /\ self.kind = "VGTSimulation2D"
    /\ Nt = 3
    /\ save_every = 2
    /\ Len(phi_history) = 2
    /\ phi_history[2] = phi_prev
    /\ phi_history[2] # phi
    /\ phi_history[2] # phi_history[1]

\* m is the largest absolute value of the cells of f
IsMaxAbs(m, f) ==
    /\ \E i \in 1..Len(f) : RAbs(f[i]) = m
    /\ \A i \in 1..Len(f) : RLeq(RAbs(f[i]), m)

\* C6: during and after simulate(Nt, save_every >= 1) on a fresh 1D engine
\* max_amplitude has one entry per step made plus one (Nt + 1 at return), and
\* entry t is the largest absolute value of the field after exactly t steps,
\* whether or not that step was stored in phi_history.
AmplitudeTrace ==
    (self.kind = "VGTSimulation1D" /\ calls = 1 /\ pc \in {"loop", "returned"}
        /\ save_every >= 1) =>
        /\ Len(max_amplitude) = t + 1
        /\ pc = "returned" => Len(max_amplitude) = Nt + 1
        /\ \A k \in 0..t :
             IsMaxAbs(max_amplitude[k + 1], FieldAfter(self, phi_history[1], k))

\* a 1D run returned with more amplitudes than snapshots, the last amplitude
\* being that of a negative cell
AmplitudeTraceWitness ==
    /\ FirstRunDone
    /\ self.kind = "VGTSimulation1D"
    /\ Nt >= 2
    /\ save_every >= 2
    /\ Len(max_amplitude) = Nt + 1
    /\ Len(phi_history) < Len(max_amplitude)
    /\ \E i \in 1..Len(phi) :
         RLess(phi[i], Zero) /\ RAbs(phi[i]) = max_amplitude[Len(max_amplitude)]

\* C7: in every state of a 2D engine energy_history, phi_history and
\* time_points have the same length, and energy_history[i] is the energy of
\* phi_history[i]; this is to hold also after the caller has assigned
\* phi_history and time_points as demonstrate_interference does.
HistoriesAligned ==
    self.kind = "VGTSimulation2D" =>
        /\ Len(time_points) = Len(phi_history)
        /\ Len(energy_history) = Len(phi_history)
        /\ \A i \in 1..Len(energy_history) :
             i <= Len(phi_history) => energy_history[i].phi = phi_history[i]

\* the first and last cell (1D), or the four edges (2D), of f are 0
BoundaryZero(s, f) ==
    IF s.kind = "VGTSimulation1D" THEN f[1] = Zero /\ f[Len(f)] = Zero ELSE EdgesZero(f)

\* C8: every field an engine holds or stores has boundary cells exactly 0: the
\* entries of phi_history, the step-0 snapshot among them, and the current and
\* previous field, the first previous field included.
StoredFieldsBoundaryZero ==
    self.kind \in Engines =>
        /\ \A i \in 1..Len(phi_history) : BoundaryZero(self, phi_history[i])
        /\ phi # <<>> => BoundaryZero(self, phi)
        /\ phi_prev # <<>> => BoundaryZero(self, phi_prev)

\* C9: after the caller has set the sum of two generator outputs as the
\* initial condition, the field simulate evolves from step 0 is that sum.
SuperpositionEvolved ==
    (self.kind = "VGTSimulation2D" /\ seeded /\ pc \in {"loop", "returned"} /\ t = 0) =>
        /\ phi = Superposition(self)
        /\ phi_prev = Superposition(self)

\* C10: once simulate has returned on an engine, no later operation on the
\* instance, a further call of simulate included, changes phi_history,
\* time_points, max_amplitude or energy_history.
HistoriesFrozen ==
    [][(self.kind \in Engines /\ pc = "returned") =>
         UNCHANGED <<phi_history, time_points, max_amplitude, energy_history>>]_vars

(***************************************************************************)
(* Properties of the error paths.                                          *)
(***************************************************************************)
\* C11: a call of VGTSimulation2D.simulate with an initial_type other than
\* 'gaussian' or 'ring' raises at once: no field is generated, no step is run,
\* no default initial condition is substituted, and phi_history, time_points
\* and energy_history are exactly as before the call.
UnknownTypeRaises ==
    [][(self.kind = "VGTSimulation2D" /\ calls' = calls + 1
          /\ initial_type' \notin {"gaussian", "ring"}) =>
         /\ pc' = "raised"
         /\ UNCHANGED <<phi_history, time_points, energy_history, phi, phi_prev,
                        laplacian, t>>]_vars

\* a call with an unknown initial_type raised on an instance that holds the
\* histories of an earlier run
UnknownTypeRaisesWitness ==
    /\ self.kind = "VGTSimulation2D"
    /\ pc = "raised"
    /\ initial_type = "spiral"
    /\ calls = 2
    /\ Len(phi_history) >= 2
    /\ Len(energy_history) = Len(time_points)

(***************************************************************************)
(* Construction with a grid outside the documented range.  __init__ checks *)
(* none of its arguments: L / Nx and np.linspace(0, L, Nx) succeed for     *)
(* Nx = 2 and for L <= 0, so these instances exist and simulate runs on    *)
(* them.  <<L, Nx>>: two points, no extent, negative extent.               *)
(***************************************************************************)
InvalidGrids1D ==
    {VGTSimulation1D(RInt(g[1]), g[2], One, Zero, <<1, 2>>, <<1, 4>>) :
        g \in {<<2, 2>>, <<0, 2>>, <<-2, 2>>, <<-2, 3>>}}

\* sim = VGTSimulation1D(L, Nx) with such a grid
InitInvalidGrid == self \in InvalidGrids1D /\ Idle

NextInvalidGrid ==
    \/ SimulateCall1D
    \/ SimulateStep1D

SpecInvalidGrid == InitInvalidGrid /\ [][NextInvalidGrid]_vars

\* C12: no engine with fewer than 3 grid points along an axis or with a
\* non-positive extent (hence spacing) ever runs a step, construction having
\* failed for such arguments.
GridValidWhenStepping ==
    (self.kind \in Engines /\ t >= 1) =>
        /\ self.Nx >= 3
        /\ RLess(Zero, self.dx)
        /\ self.kind = "VGTSimulation2D" => (self.Ny >= 3 /\ RLess(Zero, self.dy))

(***************************************************************************)
(* The CFL factor.                                                         *)
(***************************************************************************)
\* the dt_factor arguments the instances were constructed with
DtFactors(s) == IF s.kind = "VGTSimulation1D" THEN {<<1, 2>>, Two} ELSE {<<1, 2>>, One}

\* dt * c / dx (1D), dt * c / min(dx, dy) (2D): the factor the instance runs at
CflFactor(s) ==
    RDiv(RMul(s.dt, s.c),
         IF s.kind = "VGTSimulation1D" THEN s.dx ELSE RMin(s.dx, s.dy))

\* the current call of simulate was given a known initial_type (2D)
KnownCall == self.kind = "VGTSimulation1D" \/ initial_type \in {"gaussian", "ring"}

\* C13: for every positive dt_factor, those above the stability limit (1 in
\* 1D, 1/sqrt(2) in 2D) included, construction and simulate(Nt, save_every >= 1)
\* raise no error, dt is the unclamped dt_factor * dx / c, the field is the
\* uncorrected result of the steps, and simulate returns after exactly Nt steps.
UnstableFactorNoError ==
    (self.kind \in Engines /\ calls >= 1 /\ save_every >= 1 /\ KnownCall) =>
        /\ pc \in {"loop", "returned"}
        /\ CflFactor(self) \in DtFactors(self)
        /\ t <= Nt
        /\ pc = "returned" => t = Nt
        /\ (calls = 1 /\ ~seeded) => phi = FieldAfter(self, phi_history[1], t)

\* a 1D run at a CFL factor above 1 returned after its Nt >= 2 steps, its
\* amplitude having grown beyond the initial one
UnstableFactorNoErrorWitness ==
    /\ FirstRunDone
    /\ self.kind = "VGTSimulation1D"
    /\ RLess(One, CflFactor(self))
    /\ save_every >= 1
    /\ Nt >= 2
    /\ t = Nt
    /\ RLess(max_amplitude[1], max_amplitude[Len(max_amplitude)])

(***************************************************************************)
(* DispersionAnalyzer (analysis/dispersion.py).                            *)
(*                                                                         *)
(* A CFL factor is compared with 1.0 / np.sqrt(2), so the numbers of the   *)
(* stability scan are kept as <<a, b>>, standing for a + b / sqrt(2) with  *)
(* a and b rational.                                                       *)
(***************************************************************************)
MaxTrace == 3
MaxSamples == 6

\* the sign (-1, 0, 1) of the rational a
RSign(a) == IF a[1] < 0 THEN -1 ELSE IF a[1] = 0 THEN 0 ELSE 1

\* the sign of a + b / sqrt(2)
SurdSign(a, b) ==
    IF RSign(a) >= 0 /\ RSign(b) >= 0 THEN (IF a = Zero /\ b = Zero THEN 0 ELSE 1)
    ELSE IF RSign(a) <= 0 /\ RSign(b) <= 0 THEN -1
    ELSE IF RSign(a) > 0 THEN RSign(RSub(RMul(Two, RSq(a)), RSq(b)))
    ELSE RSign(RSub(RSq(b), RMul(Two, RSq(a))))

\* u < v
SurdLess(u, v) == SurdSign(RSub(u[1], v[1]), RSub(u[2], v[2])) < 0

\* 1.0 / np.sqrt(2) (line 174)
InvSqrt2 == <<Zero, One>>

\* np.linspace(0.1, 2.0, 20) (line 169): 0.1, 0.2, ..., 2.0
ScanPoints == 20
dt_factors == [i \in 1..ScanPoints |-> <<Rat(i, 10), Zero>>]

\* a variant of the criterion with the 1D limit 1.0 in place of 1 / sqrt(2)
StableLimitOne(dt_f) == SurdLess(dt_f, <<One, Zero>>)

\* stable = dt_f < 1.0 / np.sqrt(2) (line 174)
Stable(dt_f) == SurdLess(dt_f, InvSqrt2)

(***************************************************************************)
(* analyze_stability(save_path=None).  self.data is the bundle; its        *)
(* 'max_amplitude' is absent, a single value, or a trace of 0..MaxTrace    *)
(* values; 'dt' and 'phi_history' are absent.                              *)
(***************************************************************************)
RECURSIVE Traces(_)
\* the traces of length n over two amplitudes
Traces(n) ==
    IF n = 0 THEN {<<>>}
    ELSE {Append(tr, v) : tr \in Traces(n - 1), v \in {One, <<1, 2>>}}

Bundles ==
    {[present |-> FALSE, scalar |-> FALSE, values |-> <<>>]}
        \cup {[present |-> TRUE, scalar |-> TRUE, values |-> <<v>>] : v \in {One, <<1, 2>>}}
        \cup {[present |-> TRUE, scalar |-> FALSE, values |-> tr] :
                 tr \in UNION {Traces(n) : n \in 0..MaxTrace}}

\* amp (lines 192, 197)
Amp(data) == data.values

\* time (lines 193-194, 198), dt being 0.01 without a 'dt' entry
Time(data) == [k \in 1..Len(data.values) |-> RMul(RInt(k - 1), <<1, 100>>)]

\* what lines 205-206 can do: amp[0] raises IndexError on an empty trace;
\* curve_fit raises TypeError when the 3 parameters outnumber the data points;
\* otherwise it converges or raises RuntimeError, which the data decides
FitOutcomes(amp) ==
    IF Len(amp) = 0 THEN {"IndexError"}
    ELSE IF Len(amp) < 3 THEN {"TypeError"}
    ELSE {"converged", "RuntimeError"}

\* a variant of the try statement whose handler is `except RuntimeError:`
AmplitudePanelNarrow(outcome) ==
    IF outcome = "converged"
    THEN [raised |-> FALSE, fit |-> "ok", lines |-> <<"Simulation points", "Fit">>]
    ELSE IF outcome = "RuntimeError"
    THEN [raised |-> FALSE, fit |-> "failed", lines |-> <<"Simulation line">>]
    ELSE [raised |-> TRUE, fit |-> "failed", lines |-> <<>>]

\* the try / except of lines 204-212: what is plotted on axes[0, 1]
AmplitudePanel(outcome) ==
    IF outcome = "converged"
    THEN [raised |-> FALSE, fit |-> "ok", lines |-> <<"Simulation points", "Fit">>]
    ELSE [raised |-> FALSE, fit |-> "failed", lines |-> <<"Simulation line">>]

\* no simulate call on a single instance is in progress
NoCall ==
    /\ phi_history = <<>>
    /\ time_points = <<>>
    /\ max_amplitude = <<>>
    /\ energy_history = <<>>
    /\ pc = "idle"
    /\ phi = <<>>
    /\ phi_prev = <<>>
    /\ laplacian = <<>>
    /\ t = 0
    /\ Nt = 0
    /\ save_every = 0
    /\ calls = 0
    /\ seeded = FALSE
    /\ initial_type = ""

\* no engine is involved in an analyzer call
NoEngine ==
    /\ self = [kind |-> "DispersionAnalyzer"]
    /\ NoCall
    /\ sims = <<>>
    /\ lists = <<>>
    /\ arrays = <<>>

call_vars ==
    <<self, phi_history, time_points, max_amplitude, energy_history, pc, phi, phi_prev,
      laplacian, t, Nt, save_every, calls, seeded, initial_type>>

engine_vars ==
    <<self, phi_history, time_points, max_amplitude, energy_history, pc, phi, phi_prev,
      laplacian, t, Nt, save_every, calls, seeded, initial_type, sims, lists,
      arrays>>

\* DispersionAnalyzer(data).analyze_stability() about to run its scan
InitAnalyzeStability ==
    /\ NoEngine
    /\ \E d \in Bundles :
         analysis = [method |-> "analyze_stability", data |-> d, pc |-> "scan",
                     stability |-> <<>>, fit |-> "none", lines |-> <<>>,
                     result |-> "none"]

\* one iteration of the loop of lines 172-175
ScanStep ==
    /\ analysis.method = "analyze_stability"
    /\ analysis.pc = "scan"
    /\ LET dt_f == dt_factors[Len(analysis.stability) + 1]
           stability == Append(analysis.stability, IF Stable(dt_f) THEN 1 ELSE 0)
       IN  analysis' = [analysis EXCEPT
                          !.stability = stability,
                          !.pc = IF Len(stability) = ScanPoints THEN "amplitude" ELSE "scan"]
    /\ UNCHANGED engine_vars

\* the amplitude panel (lines 187-218)
AmplitudeStep ==
    /\ analysis.method = "analyze_stability"
    /\ analysis.pc = "amplitude"
    /\ IF ~analysis.data.present
       THEN analysis' = [analysis EXCEPT !.pc = "frequency"]
       ELSE \E outcome \in FitOutcomes(Amp(analysis.data)) :
              LET r == AmplitudePanel(outcome)
              IN  analysis' = [analysis EXCEPT
                                 !.fit = r.fit,
                                 !.lines = r.lines,
                                 !.pc = IF r.raised THEN "raised" ELSE "frequency"]
    /\ UNCHANGED engine_vars

\* the frequency panel (lines 220-264): nothing to plot without 'phi_history'
FrequencyStep ==
    /\ analysis.method = "analyze_stability"
    /\ analysis.pc = "frequency"
    /\ analysis' = [analysis EXCEPT !.pc = "convergence"]
    /\ UNCHANGED engine_vars

\* the convergence panel and return fig (lines 266-287)
ConvergenceStep ==
    /\ analysis.method = "analyze_stability"
    /\ analysis.pc = "convergence"
    /\ analysis' = [analysis EXCEPT !.pc = "returned", !.result = "fig"]
    /\ UNCHANGED engine_vars

(***************************************************************************)
(* verify_1d_dispersion(phi_data, dx, c, omega0).  A wavenumber k is kept  *)
(* as k / (2 pi), an entry |phi_fft[j]| as its bin j, and an entry of      *)
(* omega_theory as <<c^2 (k / 2 pi)^2, omega0^2>>: its square is the first *)
(* times (2 pi)^2 plus the second.  Only len(phi_data) = n matters.        *)
(***************************************************************************)
\* scipy.fft.fftfreq(n, d): 0, 1, ..., (n-1)//2, -(n//2), ..., -1, over n*d
fftfreq(n, d) ==
    [i \in 1..n |-> RDiv(Rat(IF i - 1 <= (n - 1) \div 2 THEN i - 1 ELSE i - 1 - n, n), d)]

\* lines 35-45
verify_1d_dispersion(n, dx, c, omega0) ==
    LET k == fftfreq(n, dx)
        half == Len(k) \div 2
        k_pos == [j \in 1..half |-> k[j]]
    IN  [k_pos |-> k_pos,
         phi_fft_pos |-> [j \in 1..half |-> j - 1],
         omega_theory |-> [j \in 1..half |->
                              <<RMul(RSq(c), RSq(k_pos[j])), RSq(omega0)>>]]

\* analyzer.verify_1d_dispersion(phi_data, dx, c, omega0) about to run
InitVerifyDispersion ==
    /\ NoEngine
    /\ \E n \in 1..MaxSamples, dx \in {One, <<1, 2>>}, c \in {One, Two},
          omega0 \in {Zero, One, Two} :
         analysis = [method |-> "verify_1d_dispersion", n |-> n, dx |-> dx, c |-> c,
                     omega0 |-> omega0, pc |-> "called", result |-> "none"]

VerifyDispersion ==
    /\ analysis.method = "verify_1d_dispersion"
    /\ analysis.pc = "called"
    /\ analysis' = [analysis EXCEPT
                      !.pc = "returned",
                      !.result = verify_1d_dispersion(analysis.n, analysis.dx, analysis.c,
                                                      analysis.omega0)]
    /\ UNCHANGED engine_vars

InitAnalyzer == InitAnalyzeStability \/ InitVerifyDispersion

NextAnalyzer ==
    \/ ScanStep
    \/ AmplitudeStep
    \/ FrequencyStep
    \/ ConvergenceStep
    \/ VerifyDispersion

SpecAnalyzer == InitAnalyzer /\ [][NextAnalyzer]_vars

(***************************************************************************)
(* Properties of the analyzer.                                             *)
(***************************************************************************)
\* CFL factors around the limit: rationals on both sides, and the limit itself
SampleFactors ==
    {<<Rat(n, 100), Zero>> : n \in {0, 10, 70, 71, 80, 100, 200}} \cup {InvSqrt2}

\* v < 1/sqrt(2) for a rational v >= 0, by squares
RationalBelowLimit(v) == RLess(RMul(Two, RSq(v)), One)

\* C14: the stability scan classifies a CFL factor as stable (1) when it is
\* strictly less than 1/sqrt(2) and as unstable (0) when it is greater, by
\* comparison with that limit alone and with no simulation run; the limit
\* itself is classified too (as unstable).
StabilityClassification ==
    analysis.method = "analyze_stability" =>
        /\ \A i \in 1..Len(analysis.stability) :
             analysis.stability[i] =
                 IF RationalBelowLimit(dt_factors[i][1]) THEN 1 ELSE 0
        /\ \A v \in SampleFactors :
             Stable(v) = (v # InvSqrt2 /\ RationalBelowLimit(v[1]))
        /\ calls = 0 /\ phi_history = <<>>

\* the scan is complete: 0.7 was classified as stable and 0.8 as unstable, and
\* both classes occur
StabilityClassificationWitness ==
    /\ analysis.method = "analyze_stability"
    /\ Len(analysis.stability) = ScanPoints
    /\ analysis.stability[7] = 1
    /\ analysis.stability[8] = 0
    /\ ~Stable(InvSqrt2)

\* C15: when the decay fit fails in analyze_stability, the caller is told: what
\* analyze_stability returns differs from what it returns after a successful
\* fit (the figure alone), and the analyzer has drawn no fallback of its own
\* choice on the amplitude panel.
FitFailureReported ==
    (analysis.method = "analyze_stability" /\ analysis.pc = "returned"
        /\ analysis.fit = "failed") =>
        /\ analysis.result # "fig"
        /\ analysis.lines = <<>>

\* C16: whatever the amplitude trace of the bundle (any length, a single value
\* included), a failure of the decay fit does not leave analyze_stability as
\* an error: the analysis goes on to the frequency and convergence panels and
\* returns the figure.
FitFailureContained ==
    analysis.method = "analyze_stability" =>
        /\ analysis.pc # "raised"
        /\ analysis.fit = "failed" =>
             analysis.pc \in {"frequency", "convergence", "returned"}
        /\ (analysis.data.present /\ Len(Amp(analysis.data)) < 3
              /\ analysis.pc \in {"frequency", "convergence", "returned"}) =>
             analysis.fit = "failed"
        /\ analysis.pc = "returned" =>
             (analysis.result = "fig" /\ Len(analysis.stability) = ScanPoints)

\* analyze_stability returned its figure for a bundle whose max_amplitude is a
\* single value, the fit having failed
FitFailureContainedWitness ==
    /\ analysis.method = "analyze_stability"
    /\ analysis.data.scalar
    /\ analysis.fit = "failed"
    /\ analysis.pc = "returned"
    /\ analysis.result = "fig"

\* C20: verify_1d_dispersion returns three arrays of equal length that hold
\* exactly the entries of the positive wavenumbers of k = 2*pi*fftfreq(N, dx),
\* for even and odd N: those wavenumbers, the FFT magnitude of their bins, and
\* omega_theory with omega_theory[j]^2 = c^2*k[j]^2 + omega0^2.
DispersionPositiveWavenumbers ==
    (analysis.method = "verify_1d_dispersion" /\ analysis.pc = "returned") =>
        LET k == fftfreq(analysis.n, analysis.dx)
            positive == {i \in 1..analysis.n : RLess(Zero, k[i])}
            r == analysis.result
        IN  /\ Len(r.k_pos) = Cardinality(positive)
            /\ Len(r.phi_fft_pos) = Len(r.k_pos)
            /\ Len(r.omega_theory) = Len(r.k_pos)
            /\ \A i \in positive : \E j \in 1..Len(r.k_pos) :
                 r.k_pos[j] = k[i] /\ r.phi_fft_pos[j] = i - 1
            /\ \A j \in 1..Len(r.k_pos) :
                 /\ RLess(Zero, r.k_pos[j])
                 /\ r.omega_theory[j] =
                        <<RMul(RSq(analysis.c), RSq(r.k_pos[j])), RSq(analysis.omega0)>>

(***************************************************************************)
(* The null field.                                                         *)
(***************************************************************************)
\* every cell of the vector f is 0
IsNull(f) == \A i \in 1..Len(f) : f[i] = Zero

\* C17: with omega0 = 0, a step of the 1D scheme on an all-zero current and
\* previous field gives an all-zero field (boundaries exactly 0, interior
\* unchanged), so the field stays null over any number of steps; this holds
\* for update_wave and for the loop body of VGTSimulation1D.simulate.
NullFieldStaysNull ==
    [][(self.kind \in OneD /\ t' = t + 1 /\ self.omega0 = Zero) =>
         /\ (IsNull(phi) /\ IsNull(phi_prev)) => (IsNull(phi') /\ IsNull(phi_prev'))
         /\ self.kind = "VGTSimulation1D" =>
              IsNull(SimulateBody(self, ZerosLike(phi), ZerosLike(phi)))]_vars

\* update_wave was applied at least twice from a null field with omega0 = 0
NullFieldStaysNullWitness ==
    /\ self.kind = "update_wave"
    /\ self.omega0 = Zero
    /\ t >= 2
    /\ Len(phi_history) = t + 1
    /\ \A k \in 1..Len(phi_history) : IsNull(phi_history[k])
    /\ IsNull(phi) /\ IsNull(phi_prev)

(***************************************************************************)
(* A parameter sweep (run_parameter_sweep, wave_1d.py lines 213-224): one  *)
(* VGTSimulation1D per sweep point.  Here the two runs may be interleaved  *)
(* step by step.  Python lists are objects: sims[i] holds the identities   *)
(* of its three lists and `lists` their contents.                          *)
(***************************************************************************)
MaxNtSweep == 2
SweepIds == 1..2

\* a variant of the storage in which the lists are attributes of the class,
\* one object for all instances
NewListShared(i, name) == <<1, name>>

\* self.<name> = [] in __init__ (lines 48-50): a new list object
NewList(i, name) == <<i, name>>

\* the names of the list attributes of an engine instance
ListNames == {"phi_history", "time_points", "max_amplitude", "energy_history"}

\* the sweep points: the engine instances on the smallest grids
SweepPoints ==
    {s \in Instances1D : s.Nx = 3}
        \cup {s \in Instances2D : s.Nx = 3 /\ s.Ny = 3 /\ s.Lx = s.Ly}

\* sim = VGTSimulation1D(...) or VGTSimulation2D(...) for sweep point i; the 1D
\* engine has no energy_history and the 2D engine no max_amplitude, and the list
\* an engine does not have stays empty
Constructed(i, s) ==
    [self |-> s,
     phi_history |-> NewList(i, "phi_history"),
     time_points |-> NewList(i, "time_points"),
     max_amplitude |-> NewList(i, "max_amplitude"),
     energy_history |-> NewList(i, "energy_history"),
     pc |-> "idle", phi |-> <<>>, phi_prev |-> <<>>, t |-> 0, Nt |-> 0, save_every |-> 0,
     initial_type |-> "", overlapped |-> FALSE]

InitSweep ==
    /\ self = [kind |-> "run_parameter_sweep"]
    /\ NoCall
    /\ analysis = <<>>
    /\ \E s1 \in SweepPoints, s2 \in SweepPoints :
         sims = [i \in SweepIds |-> Constructed(i, IF i = 1 THEN s1 ELSE s2)]
    /\ lists = [id \in {NewList(i, name) : i \in SweepIds, name \in ListNames} |-> <<>>]
    /\ arrays = <<>>

\* another instance is inside its time loop
OtherRunning(i) == \E j \in SweepIds \ {i} : sims[j].pc = "loop"

\* the initial types a call on instance s can be given
TypesOf(s) ==
    IF s.kind = "VGTSimulation1D" THEN {"gaussian"}
    ELSE {ty \in InitialTypes : Drawable(s, ty)}

\* the initial field of simulate: wave_1d.py line 69, wave_2d.py lines 98-103
InitialOf(s, ty) ==
    IF s.kind = "VGTSimulation1D" THEN gaussian_pulse(s, RDiv(s.L, Two), One)
    ELSE SelectInitial(s, ty).phi

\* sims[i].simulate(Nt, save_every, initial_type) up to the time loop
\* (wave_1d.py lines 69-76, wave_2d.py lines 98-110)
SweepCall(i) ==
    /\ sims[i].pc = "idle"
    /\ \E nt \in 0..MaxNtSweep, se \in 1..MaxSave, ty \in TypesOf(sims[i].self) :
         LET me == sims[i]
             s == me.self
         IN  IF s.kind = "VGTSimulation2D" /\ SelectInitial(s, ty).raised
             THEN /\ sims' = [sims EXCEPT ![i] =
                                [me EXCEPT !.pc = "raised", !.initial_type = ty]]
                  /\ UNCHANGED lists
             ELSE LET p == InitialOf(s, ty)
                      l1 == [lists EXCEPT ![me.phi_history] = Append(@, p)]
                      l2 == [l1 EXCEPT ![me.time_points] = Append(@, Zero)]
                  IN  /\ lists' =
                            IF s.kind = "VGTSimulation1D"
                            THEN [l2 EXCEPT ![me.max_amplitude] = Append(@, MaxAbs(p))]
                            ELSE [l2 EXCEPT ![me.energy_history] =
                                               Append(@, compute_energy(s, p, p))]
                      /\ sims' = [sims EXCEPT ![i] =
                                    [me EXCEPT !.phi = p, !.phi_prev = p, !.t = 0,
                                               !.Nt = nt, !.save_every = se,
                                               !.initial_type = ty,
                                               !.pc = IF nt = 0 THEN "returned"
                                                      ELSE "loop"]]
    /\ UNCHANGED <<call_vars, arrays, analysis>>

\* one iteration of the time loop of sims[i].simulate
\* (wave_1d.py lines 79-102, wave_2d.py lines 113-136)
SweepStep(i) ==
    /\ sims[i].pc = "loop"
    /\ LET me == sims[i]
           s == me.self
           phi_next == Advance(s, <<me.phi, me.phi_prev>>)[1]
           tt == me.t + 1
           due == SnapshotDue(tt, me.save_every)
           l1 == IF due THEN [lists EXCEPT ![me.phi_history] = Append(@, phi_next)]
                 ELSE lists
           l2 == IF due
                 THEN [l1 EXCEPT ![me.time_points] = Append(@, RMul(RInt(tt), s.dt))]
                 ELSE l1
       IN  /\ lists' =
                 IF s.kind = "VGTSimulation1D"
                 THEN [l2 EXCEPT ![me.max_amplitude] = Append(@, MaxAbs(phi_next))]
                 ELSE IF due
                      THEN [l2 EXCEPT ![me.energy_history] =
                                         Append(@, compute_energy(s, phi_next, me.phi))]
                      ELSE l2
           /\ sims' = [sims EXCEPT ![i] =
                         [me EXCEPT !.phi_prev = me.phi, !.phi = phi_next, !.t = tt,
                                    !.pc = IF tt = me.Nt THEN "returned" ELSE "loop",
                                    !.overlapped = me.overlapped \/ OtherRunning(i)]]
    /\ UNCHANGED <<call_vars, arrays, analysis>>

NextSweep ==
    \/ \E i \in SweepIds : SweepCall(i)
    \/ \E i \in SweepIds : SweepStep(i)

SpecSweep == InitSweep /\ [][NextSweep]_vars

\* both runs of the sweep have returned
BothReturned == \A i \in SweepIds : sims[i].pc = "returned"

\* the two runs were given identical inputs
SameInputs ==
    /\ sims[1].self = sims[2].self
    /\ sims[1].Nt = sims[2].Nt
    /\ sims[1].save_every = sims[2].save_every
    /\ sims[1].initial_type = sims[2].initial_type

RECURSIVE SoloSnapshots(_, _, _, _, _)
\* the phi_history of a run of nt steps on s alone from step k on, <<phi, phi_prev>>
\* being pair after k steps: the fields after 0, se, 2 se, ... steps
SoloSnapshots(s, pair, k, se, nt) ==
    LET here == IF k % se = 0 THEN <<pair[1]>> ELSE <<>>
    IN  IF k = nt THEN here
        ELSE CHOOSE r \in {here \o SoloSnapshots(s, p, k + 1, se, nt) :
                             p \in {Advance(s, pair)}} : TRUE

RECURSIVE SoloAmplitudes(_, _, _, _)
\* the max_amplitude of a run of nt steps on s alone from step k on
SoloAmplitudes(s, pair, k, nt) ==
    IF k = nt THEN <<MaxAbs(pair[1])>>
    ELSE CHOOSE r \in {<<MaxAbs(pair[1])>> \o SoloAmplitudes(s, p, k + 1, nt) :
                         p \in {Advance(s, pair)}} : TRUE

\* instance i ended as it would have ended running alone
AsAlone(i) ==
    LET me == sims[i]
        s == me.self
        f0 == InitialOf(s, me.initial_type)
        n == me.Nt \div me.save_every
    IN  /\ lists[me.phi_history] = SoloSnapshots(s, <<f0, f0>>, 0, me.save_every, me.Nt)
        /\ lists[me.time_points] =
               [k \in 1..(n + 1) |-> RMul(RInt((k - 1) * me.save_every), s.dt)]
        /\ lists[me.max_amplitude] =
               IF s.kind = "VGTSimulation1D" THEN SoloAmplitudes(s, <<f0, f0>>, 0, me.Nt)
               ELSE <<>>

\* C19: when the runs of two engine instances are interleaved step by step in
\* any order, each instance ends with the phi_history, time_points and
\* max_amplitude of its run alone
SweepIndependent ==
    BothReturned => \A i \in SweepIds : AsAlone(i)

\* two distinct sweep points have returned, each having taken steps while the
\* other was inside its loop
SweepIndependentWitness ==
    /\ BothReturned
    /\ sims[1].self # sims[2].self
    /\ \A i \in SweepIds : sims[i].overlapped /\ sims[i].Nt = MaxNtSweep
    /\ AsAlone(1) /\ AsAlone(2)

(***************************************************************************)
(* The bundle of a DispersionAnalyzer (self.data): a mapping from names to *)
(* Python values.  A value is kept with its Python type, because the       *)
(* analyses probe it (hasattr(v, 'shape'), hasattr(v, '__len__')): a       *)
(* float, a list of values, or a numpy array with its shape.  A float and  *)
(* an array of shape () keep their number as items[1].                     *)
(***************************************************************************)
PyFloat(v) == [type |-> "float", shape |-> <<>>, items |-> <<v>>]
PyList(items) == [type |-> "list", shape |-> <<>>, items |-> items]
NdArray(shape, items) == [type |-> "ndarray", shape |-> shape, items |-> items]

RECURSIVE asarray(_)
\* np.asarray(v), as np.savez applies it to every value it stores
asarray(v) ==
    IF v.type = "ndarray" THEN v
    ELSE IF v.type = "float" THEN NdArray(<<>>, v.items)
    ELSE IF v.items = <<>> THEN NdArray(<<0>>, <<>>)
    ELSE LET el == [i \in 1..Len(v.items) |-> asarray(v.items[i])]
         IN  NdArray(<<Len(v.items)>> \o el[1].shape,
                     [i \in 1..Len(v.items) |->
                         IF el[i].shape = <<>> THEN el[i].items[1] ELSE el[i].items])


\* np.savez(path, **bundle) followed by np.load(path) and line 28: every value
\* comes back as a numpy array
Reloaded(bundle) == [key \in DOMAIN bundle |-> asarray(bundle[key])]

\* DispersionAnalyzer.__init__ (lines 16-30): simulation_data is a path (a str)
\* to the persisted bundle or the bundle itself
AnalyzerData(source, bundle) ==
    IF source = "path" THEN Reloaded(bundle) ELSE bundle

\* hasattr(v, 'shape')
HasShape(v) == v.type = "ndarray"

\* hasattr(v, '__len__'): lists and numpy arrays of every shape, () included
HasLen(v) == v.type \in {"list", "ndarray"}

\* len(v) raises TypeError on a float and on an array of shape ()
LenRaises(v) == v.type = "float" \/ (v.type = "ndarray" /\ v.shape = <<>>)

\* len(v) where it is defined
PyLen(v) == IF v.type = "list" THEN Len(v.items) ELSE v.shape[1]

\* a[-1] raises IndexError on shape () and on an empty first axis
LastRaises(a) == a.shape = <<>> \/ a.shape[1] = 0

\* a[idx] for a numpy array a and a 0-based idx within its first axis
Item(a, idx) ==
    IF Len(a.shape) = 1 THEN NdArray(<<>>, <<a.items[idx + 1]>>)
    ELSE NdArray(Tail(a.shape), a.items[idx + 1])

\* a[-1]
Last(a) == Item(a, a.shape[1] - 1)

\* float(v) of a float or an array of shape ()
PyFloatOf(v) == v.items[1]

(***************************************************************************)
(* Bundles.  save_data writes the attributes of an engine instance after a *)
(* run (wave_1d.py lines 188-208, wave_2d.py lines 277-296); the in-memory *)
(* bundle with the same names holds the attributes themselves: numpy       *)
(* arrays for the grids, lists for the histories, floats for parameters.   *)
(***************************************************************************)
MaxNtBundle == 1

\* a list of floats
FloatList(values) == PyList([i \in 1..Len(values) |-> PyFloat(values[i])])

\* the 1D array of the sequence f
Array1(f) == NdArray(<<Len(f)>>, f)

\* the 2D array of the rows m
Array2(m) == NdArray(<<Rows(m), Cols(m)>>, m)

\* the bundle of VGTSimulation1D.save_data after simulate(nt, save_every = 1)
Bundle1D(s, nt) ==
    LET f0 == InitialOf(s, "gaussian")
        hist == SoloSnapshots(s, <<f0, f0>>, 0, 1, nt)
        b == [x |-> Array1(s.x),
              phi_history |-> PyList([i \in 1..Len(hist) |-> Array1(hist[i])]),
              time_points |-> FloatList([i \in 1..Len(hist) |-> RMul(RInt(i - 1), s.dt)]),
              max_amplitude |-> FloatList(SoloAmplitudes(s, <<f0, f0>>, 0, nt)),
              L |-> PyFloat(s.L), Nx |-> PyFloat(RInt(s.Nx)), c |-> PyFloat(s.c),
              omega0 |-> PyFloat(s.omega0), dx |-> PyFloat(s.dx), dt |-> PyFloat(s.dt),
              pulse_width |-> PyFloat(s.pulse_width)]
    IN  [key \in DOMAIN b |-> b[key]]

RECURSIVE SoloEnergies(_, _, _, _)
\* the energy_history of a run of nt steps with save_every = 1 on s alone
SoloEnergies(s, pair, k, nt) ==
    IF k = nt THEN <<compute_energy(s, pair[1], pair[2])>>
    ELSE CHOOSE r \in {<<compute_energy(s, pair[1], pair[2])>> \o SoloEnergies(s, p, k + 1, nt) :
                         p \in {Advance(s, pair)}} : TRUE

\* the bundle of VGTSimulation2D.save_data after simulate(nt, save_every = 1, ty)
Bundle2D(s, nt, ty) ==
    LET f0 == InitialOf(s, ty)
        hist == SoloSnapshots(s, <<f0, f0>>, 0, 1, nt)
        b == [X |-> Array2(s.X), Y |-> Array2(s.Y),
              phi_history |-> PyList([i \in 1..Len(hist) |-> Array2(hist[i])]),
              time_points |-> FloatList([i \in 1..Len(hist) |-> RMul(RInt(i - 1), s.dt)]),
              energy_history |-> FloatList(SoloEnergies(s, <<f0, f0>>, 0, nt)),
              Lx |-> PyFloat(s.Lx), Ly |-> PyFloat(s.Ly), Nx |-> PyFloat(RInt(s.Nx)),
              Ny |-> PyFloat(RInt(s.Ny)), c |-> PyFloat(s.c), omega0 |-> PyFloat(s.omega0),
              dx |-> PyFloat(s.dx), dy |-> PyFloat(s.dy), dt |-> PyFloat(s.dt)]
    IN  [key \in DOMAIN b |-> b[key]]

\* the bundles the engines persist
EngineBundles ==
    {Bundle1D(s, nt) : s \in {q \in SweepPoints : q.kind = "VGTSimulation1D"},
                       nt \in 0..MaxNtBundle}
        \cup UNION {{Bundle2D(s, nt, ty) : ty \in {q \in TypesOf(s) : ~SelectInitial(s, q).raised}} :
                      s \in {q \in SweepPoints : q.kind = "VGTSimulation2D"},
                      nt \in 0..MaxNtBundle}

\* bundles a caller builds by hand: a single field given as a list or as an
\* array, with or without the parameters, and a max_amplitude given as a single
\* value or as a list
CallerBundles ==
    LET field == <<Zero, One, Zero>>
        x == Array1(Linspace(Two, 3))
        params == [dx |-> PyFloat(One), c |-> PyFloat(Two), omega0 |-> PyFloat(One)]
    IN  {[x |-> x, phi_history |-> FloatList(field)] @@ params,
         [x |-> x, phi_history |-> Array1(field)] @@ params,
         [x |-> x, phi_history |-> Array1(field)],
         [x |-> x, phi_history |-> PyList(<<Array1(field), Array1(ZerosLike(field))>>)],
         [phi_history |-> Array1(field)] @@ params,
         [max_amplitude |-> PyFloat(One)],
         [max_amplitude |-> FloatList(<<One, <<1, 2>>, <<1, 4>>>>), dt |-> PyFloat(<<1, 2>>)]}

AllBundles == EngineBundles \cup CallerBundles

\* no value
PyNone == [type |-> "none", shape |-> <<>>, items |-> <<>>]

(***************************************************************************)
(* plot_dispersion_verification (lines 63-161).                            *)
(***************************************************************************)
\* phi_final of lines 72-78
PhiFinal(data) ==
    LET h == data["phi_history"]
    IN  IF HasShape(h)
        THEN IF Len(h.shape) = 2
             THEN (IF LastRaises(h) THEN [raised |-> "IndexError", value |-> PyNone]
                   ELSE [raised |-> "", value |-> Last(h)])
             ELSE [raised |-> "", value |-> h]
        ELSE IF LastRaises(asarray(h)) THEN [raised |-> "IndexError", value |-> PyNone]
             ELSE [raised |-> "", value |-> Last(asarray(h))]

\* float(self.data[name]) if name in self.data else default (lines 80-82)
ParamOr(data, name, default) ==
    IF name \in DOMAIN data THEN PyFloatOf(data[name]) ELSE default

\* fft and len of lines 35-36 need at least one axis and one sample
FftRaises(a) == a.shape = <<>> \/ a.shape[1] = 0

\* the 1D panel (lines 67-97): the locals it defines and what it plots
DispersionPanel(data) ==
    IF ~("x" \in DOMAIN data /\ "phi_history" \in DOMAIN data)
    THEN [raised |-> "", locals |-> {}, phi_final |-> PyNone, dx |-> Zero, c |-> Zero,
          omega0 |-> Zero, plotted |-> <<>>]
    ELSE LET sel == PhiFinal(data)
             dx == ParamOr(data, "dx", <<1, 10>>)
             c == ParamOr(data, "c", One)
             omega0 == ParamOr(data, "omega0", Two)
         IN  IF sel.raised # ""
             THEN [raised |-> sel.raised, locals |-> {}, phi_final |-> PyNone, dx |-> Zero,
                   c |-> Zero, omega0 |-> Zero, plotted |-> <<>>]
             ELSE IF FftRaises(sel.value)
             THEN [raised |-> "fft error", locals |-> {"phi_final", "dx", "c", "omega0"},
                   phi_final |-> sel.value, dx |-> dx, c |-> c, omega0 |-> omega0,
                   plotted |-> <<>>]
             ELSE [raised |-> "", locals |-> {"phi_final", "dx", "c", "omega0"},
                   phi_final |-> sel.value, dx |-> dx, c |-> c, omega0 |-> omega0,
                   plotted |-> <<verify_1d_dispersion(sel.value.shape[1], dx, c, omega0)>>]

\* the two ways of building the analyzer
Sources == {"dict", "path"}

\* DispersionAnalyzer(bundle) and DispersionAnalyzer(path of the persisted bundle),
\* each about to run plot_dispersion_verification
InitPlotDispersion ==
    /\ NoEngine
    /\ \E b \in AllBundles :
         analysis = [method |-> "plot_dispersion_verification",
                     bundle |-> b,
                     an |-> [src \in Sources |->
                               [data |-> AnalyzerData(src, b), pc |-> "dispersion",
                                raised |-> "", locals |-> {}, phi_final |-> PyNone,
                                dx |-> Zero, c |-> Zero, omega0 |-> Zero, plotted |-> <<>>,
                                result |-> "none"]]]

\* lines 65-97
DispersionStep(src) ==
    /\ analysis.method = "plot_dispersion_verification"
    /\ analysis.an[src].pc = "dispersion"
    /\ LET r == DispersionPanel(analysis.an[src].data)
       IN  analysis' = [analysis EXCEPT !.an[src] =
                          [@ EXCEPT !.raised = r.raised, !.locals = r.locals,
                                    !.phi_final = r.phi_final, !.dx = r.dx, !.c = r.c,
                                    !.omega0 = r.omega0, !.plotted = r.plotted,
                                    !.pc = IF r.raised # "" THEN "raised" ELSE "resonance"]]
    /\ UNCHANGED engine_vars

\* the resonance panel (lines 99-110) reads the local omega0 (line 102)
ResonanceStep(src) ==
    /\ analysis.method = "plot_dispersion_verification"
    /\ analysis.an[src].pc = "resonance"
    /\ analysis' = [analysis EXCEPT !.an[src] =
                      IF "omega0" \in @.locals THEN [@ EXCEPT !.pc = "velocity"]
                      ELSE [@ EXCEPT !.pc = "raised", !.raised = "UnboundLocalError"]]
    /\ UNCHANGED engine_vars

\* the velocity panel (lines 112-127) reads the locals c and omega0
VelocityStep(src) ==
    /\ analysis.method = "plot_dispersion_verification"
    /\ analysis.an[src].pc = "velocity"
    /\ analysis' = [analysis EXCEPT !.an[src] =
                      IF {"c", "omega0"} \subseteq @.locals THEN [@ EXCEPT !.pc = "energy"]
                      ELSE [@ EXCEPT !.pc = "raised", !.raised = "UnboundLocalError"]]
    /\ UNCHANGED engine_vars

\* len(np.array(self.data[name])) of line 135 raises on a single value
EnergyRaises(data) ==
    /\ "energy_history" \in DOMAIN data
    /\ "time_points" \in DOMAIN data
    /\ \/ LenRaises(asarray(data["time_points"]))
       \/ (asarray(data["time_points"]).shape[1] > 0
              /\ LenRaises(asarray(data["energy_history"])))

\* the energy panel and return fig (lines 129-161)
EnergyStep(src) ==
    /\ analysis.method = "plot_dispersion_verification"
    /\ analysis.an[src].pc = "energy"
    /\ analysis' = [analysis EXCEPT !.an[src] =
                      IF EnergyRaises(@.data)
                      THEN [@ EXCEPT !.pc = "raised", !.raised = "TypeError"]
                      ELSE [@ EXCEPT !.pc = "returned", !.result = "fig"]]
    /\ UNCHANGED engine_vars

(***************************************************************************)
(* analyze_stability (lines 163-287) on a bundle of Python values.         *)
(***************************************************************************)
\* amp and time of lines 189-198
AmplitudeData(data) ==
    LET v == data["max_amplitude"]
        dt == ParamOr(data, "dt", <<1, 100>>)
    IN  IF HasLen(v)
        THEN IF LenRaises(asarray(v)) THEN [raised |-> "TypeError", amp |-> <<>>, time |-> <<>>]
             ELSE [raised |-> "", amp |-> asarray(v).items,
                   time |-> [k \in 1..asarray(v).shape[1] |-> RMul(RInt(k - 1), dt)]]
        ELSE [raised |-> "", amp |-> v.items, time |-> <<Zero>>]

\* n_snapshots of lines 227-230
Snapshots(h) ==
    IF HasShape(h)
    THEN [raised |-> "", n |-> IF Len(h.shape) > 1 THEN (IF h.shape[1] < 5 THEN h.shape[1] ELSE 5)
                               ELSE 1]
    ELSE IF LenRaises(h) THEN [raised |-> "TypeError", n |-> 0]
    ELSE [raised |-> "", n |-> IF PyLen(h) < 5 THEN PyLen(h) ELSE 5]

\* the body of the try statement of lines 238-251 for snapshot idx: the field
\* whose spectrum is plotted, or PyNone when the body raises and the loop
\* continues
FrequencyField(h, idx) ==
    LET one == IF HasShape(h) /\ Len(h.shape) > 1 THEN Item(h, idx)
               ELSE IF LenRaises(h) THEN PyNone
               ELSE IF idx < PyLen(h) THEN Item(asarray(h), idx)
               ELSE IF h.type = "list" THEN h.items[Len(h.items)]
               ELSE Last(h)
    IN  IF one.type = "none" \/ FftRaises(asarray(one)) THEN PyNone ELSE one

RECURSIVE FrequencyLines(_, _, _)
\* the fields plotted by the loop of lines 237-251 from snapshot idx on
FrequencyLines(h, idx, n) ==
    IF idx >= n THEN <<>>
    ELSE (IF FrequencyField(h, idx).type = "none" THEN <<>> ELSE <<FrequencyField(h, idx)>>)
             \o FrequencyLines(h, idx + 1, n)

\* both analyzers about to run analyze_stability; converges says whether
\* curve_fit converges on three or more points, which the data decide
InitStabilityOnBundle ==
    /\ NoEngine
    /\ \E b \in AllBundles, converges \in BOOLEAN :
         analysis = [method |-> "analyze_stability_on_bundle",
                     bundle |-> b,
                     converges |-> converges,
                     an |-> [src \in Sources |->
                               [data |-> AnalyzerData(src, b), pc |-> "scan",
                                raised |-> "", stability |-> <<>>, amp |-> <<>>,
                                time |-> <<>>, fit |-> "none", lines |-> <<>>,
                                spectra |-> <<>>, result |-> "none"]]]

\* the CFL panel (lines 167-185)
BundleScanStep(src) ==
    /\ analysis.method = "analyze_stability_on_bundle"
    /\ analysis.an[src].pc = "scan"
    /\ analysis' = [analysis EXCEPT !.an[src] =
                      [@ EXCEPT !.stability = [i \in 1..ScanPoints |->
                                                  IF Stable(dt_factors[i]) THEN 1 ELSE 0],
                                !.pc = "amplitude"]]
    /\ UNCHANGED engine_vars

\* the amplitude panel (lines 187-218)
BundleAmplitudeStep(src) ==
    /\ analysis.method = "analyze_stability_on_bundle"
    /\ analysis.an[src].pc = "amplitude"
    /\ LET data == analysis.an[src].data
       IN  IF "max_amplitude" \notin DOMAIN data
           THEN analysis' = [analysis EXCEPT !.an[src].pc = "frequency"]
           ELSE LET d == AmplitudeData(data)
                    outcome == IF FitOutcomes(d.amp) = {"converged", "RuntimeError"}
                               THEN (IF analysis.converges THEN "converged"
                                     ELSE "RuntimeError")
                               ELSE CHOOSE o \in FitOutcomes(d.amp) : TRUE
                    r == AmplitudePanel(outcome)
                IN  IF d.raised # ""
                    THEN analysis' = [analysis EXCEPT !.an[src] =
                                        [@ EXCEPT !.pc = "raised", !.raised = d.raised]]
                    ELSE analysis' = [analysis EXCEPT !.an[src] =
                                        [@ EXCEPT !.amp = d.amp, !.time = d.time,
                                                  !.fit = r.fit, !.lines = r.lines,
                                                  !.pc = "frequency"]]
    /\ UNCHANGED engine_vars

\* the frequency panel (lines 220-264)
BundleFrequencyStep(src) ==
    /\ analysis.method = "analyze_stability_on_bundle"
    /\ analysis.an[src].pc = "frequency"
    /\ LET data == analysis.an[src].data
       IN  IF "phi_history" \notin DOMAIN data
           THEN analysis' = [analysis EXCEPT !.an[src].pc = "convergence"]
           ELSE LET h == data["phi_history"]
                    s == Snapshots(h)
                IN  IF s.raised # ""
                    THEN analysis' = [analysis EXCEPT !.an[src] =
                                        [@ EXCEPT !.pc = "raised", !.raised = s.raised]]
                    ELSE analysis' = [analysis EXCEPT !.an[src] =
                                        [@ EXCEPT !.spectra = FrequencyLines(h, 0, s.n),
                                                  !.pc = "convergence"]]
    /\ UNCHANGED engine_vars

\* the convergence panel and return fig (lines 266-287)
BundleConvergenceStep(src) ==
    /\ analysis.method = "analyze_stability_on_bundle"
    /\ analysis.an[src].pc = "convergence"
    /\ analysis' = [analysis EXCEPT !.an[src] = [@ EXCEPT !.pc = "returned", !.result = "fig"]]
    /\ UNCHANGED engine_vars

InitBundle == InitPlotDispersion \/ InitStabilityOnBundle

NextBundle ==
    \/ \E src \in Sources : DispersionStep(src)
    \/ \E src \in Sources : ResonanceStep(src)
    \/ \E src \in Sources : VelocityStep(src)
    \/ \E src \in Sources : EnergyStep(src)
    \/ \E src \in Sources : BundleScanStep(src)
    \/ \E src \in Sources : BundleAmplitudeStep(src)
    \/ \E src \in Sources : BundleFrequencyStep(src)
    \/ \E src \in Sources : BundleConvergenceStep(src)

SpecBundle == InitBundle /\ [][NextBundle]_vars

\* both analyzers have finished their method, by returning or by raising
BothFinished == \A src \in Sources : analysis.an[src].pc \in {"returned", "raised"}

\* the two analyzers hold the same names with equal values (np.array_equal)
SameData ==
    /\ DOMAIN analysis.an["dict"].data = DOMAIN analysis.an["path"].data
    /\ \A key \in DOMAIN analysis.an["dict"].data :
         LET a == asarray(analysis.an["dict"].data[key])
             b == asarray(analysis.an["path"].data[key])
         IN  a.shape = b.shape /\ a.items = b.items

\* two Python values are the same array
SameArray(a, b) == a.type = b.type /\ a.shape = b.shape /\ a.items = b.items

\* the two analyzers ended the same way with the same selections and plots
SameOutcome ==
    LET live == analysis.an["dict"]
        file == analysis.an["path"]
    IN  /\ live.pc = file.pc
        /\ live.raised = file.raised
        /\ IF analysis.method = "plot_dispersion_verification"
           THEN /\ SameArray(live.phi_final, file.phi_final)
                /\ live.dx = file.dx /\ live.c = file.c /\ live.omega0 = file.omega0
                /\ live.plotted = file.plotted
           ELSE /\ live.amp = file.amp /\ live.time = file.time
                /\ live.fit = file.fit /\ live.lines = file.lines
                /\ Len(live.spectra) = Len(file.spectra)
                /\ \A i \in 1..Len(live.spectra) :
                     SameArray(asarray(live.spectra[i]), asarray(file.spectra[i]))

\* C21: an analyzer built from an in-memory bundle and one built from the path
\* of the persisted bundle hold the same names with equal values, and every
\* analysis selects the same field and parameters and ends the same way on both
BundleEquivalence ==
    BothFinished => (SameData /\ SameOutcome)

\* C29: plot_dispersion_verification, called on the analyzer of a bundle that
\* VGTSimulation1D.save_data or VGTSimulation2D.save_data persisted, never
\* reads an undefined dx, c or omega0: it does not raise
PlotCompletesOnPersisted ==
    (analysis.method = "plot_dispersion_verification" /\ analysis.bundle \in EngineBundles)
        => analysis.an["path"].pc # "raised"

\* the number of an entry of energy_history
EnergyOf(e) == EnergyValue(self, Tabulated(self, e.phi), Tabulated(self, e.phi_prev))

\* the first run of an instance built with the default c = 1.0, omega0 = 2.0 and
\* dt_factor = 0.5, from the Gaussian pulse
DefaultGaussianRun ==
    /\ self.kind = "VGTSimulation2D"
    /\ self.c = One
    /\ self.omega0 = Two
    /\ CflFactor(self) = <<1, 2>>
    /\ initial_type = "gaussian"
    /\ calls = 1
    /\ ~seeded
    /\ pc \in {"loop", "returned"}

\* C23: in a Gaussian-pulse run with omega0 = 2.0, c = 1.0 and dt_factor = 0.5
\* the energy of every saved snapshot differs from the energy of the first by
\* less than 5% of it
EnergyDriftBounded ==
    DefaultGaussianRun =>
        \A i \in 1..Len(energy_history) :
            RLess(RAbs(RSub(EnergyOf(energy_history[i]), EnergyOf(energy_history[1]))),
                  RMul(<<5, 100>>, EnergyOf(energy_history[1])))

(***************************************************************************)
(* The arrays of simulate as objects.  A numpy array is a mutable object   *)
(* and a name or a list entry refers to it: arrays.heap holds the contents *)
(* of the array objects by identity (the position in the sequence), and    *)
(* arrays.phi, arrays.phi_prev, arrays.phi_next, arrays.laplacian and the  *)
(* entries of arrays.phi_history are identities (0: the name is unbound).  *)
(* time_points, max_amplitude and energy_history hold floats, as before.   *)
(***************************************************************************)
\* a new array object with contents v
NewArray(h, v) == [heap |-> Append(h, v), id |-> Len(h) + 1]

\* a.copy(): a new object with the contents of the object a
copy(h, a) == NewArray(h, h[a])

\* a variant of the snapshot that stores the array phi itself
StoredReference(h, a) == [heap |-> h, id |-> a]

\* the value appended to self.phi_history: phi.copy()
\* (wave_1d.py lines 74, 99; wave_2d.py lines 108, 134)
StoredSnapshot(h, a) == copy(h, a)

InitBuffers ==
    /\ self \in Instances1D \cup Instances2D
    /\ NoCall
    /\ sims = <<>>
    /\ lists = <<>>
    /\ analysis = <<>>
    /\ arrays = [heap |-> <<>>, phi |-> 0, phi_prev |-> 0, phi_next |-> 0,
                 laplacian |-> 0, phi_history |-> <<>>]

\* simulate up to the time loop (wave_1d.py lines 69-76, wave_2d.py lines 98-110)
BufferCall ==
    /\ pc \in {"idle", "returned", "raised"}
    /\ calls < MaxRuns
    /\ calls' = calls + 1
    /\ \E ty \in TypesOf(self) :
         /\ initial_type' = ty
         /\ IF self.kind = "VGTSimulation2D" /\ SelectInitial(self, ty).raised
            THEN /\ pc' = "raised"
                 /\ arrays' = [arrays EXCEPT !.phi = 0, !.phi_prev = 0, !.phi_next = 0,
                                             !.laplacian = 0]
                 /\ UNCHANGED <<time_points, max_amplitude, energy_history, t, Nt,
                                save_every>>
            ELSE LET new == NewArray(arrays.heap, Tabulated(self, InitialOf(self, ty)))
                     prev == copy(new.heap, new.id)
                     kept == StoredSnapshot(prev.heap, new.id)
                 IN  /\ arrays' = [heap |-> kept.heap, phi |-> new.id,
                                   phi_prev |-> prev.id, phi_next |-> 0,
                                   laplacian |-> 0,
                                   phi_history |-> Append(arrays.phi_history, kept.id)]
                     /\ time_points' = Append(time_points, Zero)
                     /\ IF self.kind = "VGTSimulation1D"
                        THEN /\ max_amplitude' =
                                    Append(max_amplitude, MaxAbs(new.heap[new.id]))
                             /\ UNCHANGED energy_history
                        ELSE /\ energy_history' =
                                    Append(energy_history,
                                           compute_energy(self, new.heap[new.id],
                                                          new.heap[new.id]))
                             /\ UNCHANGED max_amplitude
                     /\ t' = 0
                     /\ \E nt \in 0..MaxNt, se \in 0..MaxSave :
                          /\ Nt' = nt
                          /\ save_every' = se
                          /\ pc' = IF nt = 0 THEN "returned" ELSE "loop"
    /\ UNCHANGED <<self, phi_history, phi, phi_prev, laplacian, seeded, sims, lists,
                   analysis>>

\* the arrays made by the update of one iteration: in 1D np.zeros_like(phi),
\* written cell by cell (wave_1d.py lines 80-91); in 2D the laplacian and the
\* array of the update expression, whose edges are then written
\* (wave_2d.py lines 115-126)
UpdatedArrays(s, a) ==
    LET cur == a.heap[a.phi]
        prev == a.heap[a.phi_prev]
    IN  IF s.kind = "VGTSimulation1D"
        THEN LET new == NewArray(a.heap, ZerosLike(cur))
             IN  [a EXCEPT !.heap = [new.heap EXCEPT ![new.id] =
                                        Advance(s, <<cur, prev>>)[1]],
                           !.phi_next = new.id]
        ELSE LET lap == NewArray(a.heap, Tabulated(s, laplacian_2d(s, cur)))
                 new == NewArray(lap.heap,
                                 Tabulated(s, UpdateField(s, cur, prev,
                                                          lap.heap[lap.id])))
             IN  [a EXCEPT !.heap = [new.heap EXCEPT ![new.id] =
                                        Tabulated(s, FixedBoundary2D(@))],
                           !.laplacian = lap.id, !.phi_next = new.id]

\* phi_prev = phi.copy(); phi = phi_next.copy()
\* (wave_1d.py lines 94-95, wave_2d.py lines 129-130)
RotatedArrays(a) ==
    LET prev == copy(a.heap, a.phi)
        cur == copy(prev.heap, a.phi_next)
    IN  [a EXCEPT !.heap = cur.heap, !.phi_prev = prev.id, !.phi = cur.id]

\* one iteration of the time loop (wave_1d.py lines 79-102, wave_2d.py lines
\* 113-136); t % save_every raises ZeroDivisionError when save_every = 0
BufferStep ==
    /\ pc = "loop"
    /\ LET a == RotatedArrays(UpdatedArrays(self, arrays))
           tt == t + 1
           due == save_every # 0 /\ SnapshotDue(tt, save_every)
           kept == StoredSnapshot(a.heap, a.phi)
       IN  /\ t' = tt
           /\ arrays' = IF due
                        THEN [a EXCEPT !.heap = kept.heap,
                                       !.phi_history = Append(@, kept.id)]
                        ELSE a
           /\ time_points' = IF due THEN Append(time_points, RMul(RInt(tt), self.dt))
                             ELSE time_points
           /\ max_amplitude' = IF self.kind = "VGTSimulation1D" /\ save_every # 0
                               THEN Append(max_amplitude, MaxAbs(a.heap[a.phi]))
                               ELSE max_amplitude
           /\ energy_history' = IF self.kind = "VGTSimulation2D" /\ due
                                THEN Append(energy_history,
                                            compute_energy(self, a.heap[a.phi],
                                                           a.heap[a.phi_prev]))
                                ELSE energy_history
           /\ pc' = IF save_every = 0 THEN "raised"
                    ELSE IF tt = Nt THEN "returned" ELSE "loop"
    /\ UNCHANGED <<self, phi_history, phi, phi_prev, laplacian, Nt, save_every, calls,
                   seeded, initial_type, sims, lists, analysis>>

NextBuffers ==
    \/ BufferCall
    \/ BufferStep

SpecBuffers == InitBuffers /\ [][NextBuffers]_vars

\* the array objects that simulate's locals are bound to
LocalArrays(a) == {a.phi, a.phi_prev, a.phi_next, a.laplacian} \ {0}

\* no entry of phi_history is one of the local arrays or another entry
Independent(a) ==
    \A i \in 1..Len(a.phi_history) :
        /\ a.phi_history[i] \notin LocalArrays(a)
        /\ \A j \in 1..Len(a.phi_history) :
               i # j => a.phi_history[i] # a.phi_history[j]

\* C24: every step of a run leaves each entry already in phi_history and in
\* time_points in its place and with its contents, only ever adding entries at
\* the end, and no stored snapshot is the array object of phi, phi_prev or
\* phi_next (nor of another snapshot).
SnapshotsAppendOnly ==
    [][/\ Len(arrays'.phi_history) >= Len(arrays.phi_history)
       /\ \A i \in 1..Len(arrays.phi_history) :
              /\ arrays'.phi_history[i] = arrays.phi_history[i]
              /\ arrays'.heap[arrays.phi_history[i]] = arrays.heap[arrays.phi_history[i]]
       /\ Len(time_points') >= Len(time_points)
       /\ \A i \in 1..Len(time_points) : time_points'[i] = time_points[i]
       /\ Independent(arrays')]_vars

\* a run in which the field advanced twice after its first snapshot was stored,
\* and now differs from it
SnapshotsAppendOnlyWitness ==
    /\ pc = "returned"
    /\ t >= 2
    /\ Len(arrays.phi_history) >= 2
    /\ arrays.heap[arrays.phi] # arrays.heap[arrays.phi_history[1]]
    /\ arrays.heap[arrays.phi_history[2]] # arrays.heap[arrays.phi_history[1]]

(***************************************************************************)
(* VGTSimulation1D.verify_dispersion(), called between simulate calls.     *)
(* `analysis` holds the call: the field it transforms, the wavenumbers     *)
(* over 2 pi and omega_theory as for verify_1d_dispersion, and the number  *)
(* of simulate calls made before it.                                       *)
(***************************************************************************)
\* lines 109-116: IndexError on an empty phi_history
verify_dispersion(s, history) ==
    IF history = <<>> THEN [raised |-> TRUE]
    ELSE LET phi_final == history[Len(history)]
             k == fftfreq(s.Nx, s.dx)
         IN  [raised |-> FALSE, phi_final |-> phi_final, k |-> k,
              omega_theory |-> [j \in 1..Len(k) |->
                                   <<RMul(RSq(s.c), RSq(k[j])), RSq(s.omega0)>>]]

InitEngineVerify ==
    /\ self \in Instances1D
    /\ NoCall
    /\ sims = <<>>
    /\ lists = <<>>
    /\ arrays = <<>>
    /\ analysis = [method |-> "verify_dispersion", pc |-> "none", calls |-> 0]

\* sim.verify_dispersion() while no simulate call is running
VerifyDispersionCall ==
    /\ pc \in {"idle", "returned", "raised"}
    /\ LET r == verify_dispersion(self, phi_history)
       IN  analysis' = IF r.raised
                       THEN [method |-> "verify_dispersion", pc |-> "raised",
                             calls |-> calls]
                       ELSE [method |-> "verify_dispersion", pc |-> "returned",
                             calls |-> calls, phi_final |-> r.phi_final, k |-> r.k,
                             omega_theory |-> r.omega_theory]
    /\ UNCHANGED engine_vars

NextEngineVerify ==
    \/ SimulateCall1D
    \/ SimulateStep1D
    \/ VerifyDispersionCall

SpecEngineVerify == InitEngineVerify /\ [][NextEngineVerify]_vars

\* verify_dispersion returned, and the last simulate call before it returned
AfterReturnedRun ==
    /\ analysis.pc = "returned"
    /\ analysis.calls = calls
    /\ pc = "returned"
    /\ save_every >= 1

\* C25: when verify_dispersion follows a simulate call with save_every >= 1
\* that returned, the field it transforms is simulate's field after all Nt steps.
TransformsFinalField == AfterReturnedRun => analysis.phi_final = phi

(***************************************************************************)
(* refined_simulation.py: simulate_1d                                      *)
(***************************************************************************)
\* a variant of the locals with dt = dt_factor * dx, without the division by c
Simulate1DFrameNoSpeed(L, Nx, c, omega0, dt_factor, pulse_width) ==
    [kind |-> "simulate_1d", L |-> L, Nx |-> Nx, c |-> c, omega0 |-> omega0,
     dx |-> RDiv(L, RInt(Nx)),
     dt |-> RMul(dt_factor, RDiv(L, RInt(Nx))),
     pulse_width |-> pulse_width,
     x |-> Linspace(L, Nx)]

\* the arguments of simulate_1d and its locals dx, dt, x (lines 16-18)
Simulate1DFrame(L, Nx, c, omega0, dt_factor, pulse_width) ==
    [kind |-> "simulate_1d", L |-> L, Nx |-> Nx, c |-> c, omega0 |-> omega0,
     dx |-> RDiv(L, RInt(Nx)),
     dt |-> RDiv(RMul(dt_factor, RDiv(L, RInt(Nx))), c),
     pulse_width |-> pulse_width,
     x |-> Linspace(L, Nx)]

\* the initial condition (line 21)
Simulate1DPulse(s) ==
    [i \in 1..s.Nx |->
        ExpNeg(RDiv(RSq(RSub(s.x[i], RDiv(s.L, Two))), s.pulse_width))]

\* for i in range(1, Nx - 1) (lines 29-31), from TLA+ index i on
RECURSIVE Simulate1DLoop(_, _, _, _, _)
Simulate1DLoop(s, nxt, cur, prev, i) ==
    IF i > s.Nx - 1 THEN nxt
    ELSE LET d2phi_dx2 ==
                 RDiv(RAdd(RSub(cur[i + 1], RMul(Two, cur[i])), cur[i - 1]), RSq(s.dx))
         IN  Simulate1DLoop(s,
                 [nxt EXCEPT ![i] =
                     RAdd(RSub(RMul(Two, cur[i]), prev[i]),
                          RMul(RSq(s.dt), RSub(RMul(RSq(s.c), d2phi_dx2),
                                               RMul(RSq(s.omega0), cur[i]))))],
                 cur, prev, i + 1)

\* phi_next of one iteration (lines 27-34)
Simulate1DBody(s, cur, prev) ==
    [Simulate1DLoop(s, [i \in 1..Len(cur) |-> Zero], cur, prev, 2)
        EXCEPT ![1] = Zero, ![Len(cur)] = Zero]

(***************************************************************************)
(* The three 1D implementations, called with the same arguments and run    *)
(* side by side: sims[f] is the call of f, with its locals phi, phi_prev,  *)
(* the steps done (t) and the lists it fills.  simulate is called with     *)
(* save_every = 1 on an instance with dt_factor = 0.9, the factor of       *)
(* run_simulation (line 43) and the default of simulate_1d.                *)
(***************************************************************************)
Implementations == {"simulate", "run_simulation", "simulate_1d"}

\* L, Nx, c, omega0, pulse_width of the comparison
SharedArguments ==
    {a \in [L : {RInt(n - 1) : n \in 3..MaxNx}, Nx : 3..MaxNx, c : {One, Two},
            omega0 : {Zero, Two}, pulse_width : PulseWidths] :
        /\ a.L = RInt(a.Nx - 1)
        /\ Representable1D(VGTSimulation1D(a.L, a.Nx, a.c, a.omega0, <<9, 10>>,
                                           a.pulse_width))}

\* what each implementation derives from the shared arguments
FrameOf(f, a) ==
    IF f = "simulate"
    THEN VGTSimulation1D(a.L, a.Nx, a.c, a.omega0, <<9, 10>>, a.pulse_width)
    ELSE IF f = "run_simulation"
    THEN RunSimulationFrame(a.L, a.Nx, a.c, a.omega0, a.pulse_width)
    ELSE Simulate1DFrame(a.L, a.Nx, a.c, a.omega0, <<9, 10>>, a.pulse_width)

\* each implementation's initial field
PulseOf(f, s) ==
    IF f = "simulate" THEN gaussian_pulse(s, RDiv(s.L, Two), One)
    ELSE IF f = "run_simulation" THEN simulate_wave(s)
    ELSE Simulate1DPulse(s)

\* each implementation's phi_next
BodyOf(f, s, cur, prev) ==
    IF f = "simulate" THEN SimulateBody(s, cur, prev)
    ELSE IF f = "run_simulation" THEN update_wave(cur, prev, s.dt, s.dx, s.c, s.omega0)
    ELSE Simulate1DBody(s, cur, prev)

InitThree ==
    /\ \E a \in SharedArguments, nt \in 0..MaxNtWorkflow :
         /\ self = [kind |-> "comparison", arguments |-> a, Nt |-> nt]
         /\ sims = [f \in Implementations |->
                      [self |-> FrameOf(f, a), pc |-> "idle", phi |-> <<>>,
                       phi_prev |-> <<>>, t |-> 0, phi_history |-> <<>>,
                       max_amplitude |-> <<>>]]
    /\ NoCall
    /\ lists = <<>>
    /\ arrays = <<>>
    /\ analysis = <<>>

\* the call of f up to its loop: wave_1d.py lines 69-76, integrated_workflow.py
\* lines 41-44, refined_simulation.py lines 16-24
ThreeCall(f) ==
    /\ sims[f].pc = "idle"
    /\ LET me == sims[f]
           p == Cells(PulseOf(f, me.self), me.self.Nx)
       IN  sims' = [sims EXCEPT ![f] =
                      [me EXCEPT !.phi = p, !.phi_prev = p,
                                 !.phi_history = IF f = "simulate_1d" THEN <<>> ELSE <<p>>,
                                 !.max_amplitude = IF f = "run_simulation" THEN <<>>
                                                   ELSE <<MaxAbs(p)>>,
                                 !.pc = IF self.Nt = 0 THEN "returned" ELSE "loop"]]
    /\ UNCHANGED <<call_vars, lists, arrays, analysis>>

\* one iteration of f's loop: wave_1d.py lines 79-102, integrated_workflow.py
\* lines 45-48, refined_simulation.py lines 26-38
ThreeStep(f) ==
    /\ sims[f].pc = "loop"
    /\ LET me == sims[f]
           phi_next == Cells(BodyOf(f, me.self, me.phi, me.phi_prev), me.self.Nx)
       IN  sims' = [sims EXCEPT ![f] =
                      [me EXCEPT !.phi_prev = me.phi, !.phi = phi_next, !.t = me.t + 1,
                                 !.phi_history = IF f = "simulate_1d" THEN @
                                                 ELSE Append(@, phi_next),
                                 !.max_amplitude = IF f = "run_simulation" THEN @
                                                   ELSE Append(@, MaxAbs(phi_next)),
                                 !.pc = IF me.t + 1 = self.Nt THEN "returned"
                                        ELSE "loop"]]
    /\ UNCHANGED <<call_vars, lists, arrays, analysis>>

NextThree ==
    \/ \E f \in Implementations : ThreeCall(f)
    \/ \E f \in Implementations : ThreeStep(f)

SpecThree == InitThree /\ [][NextThree]_vars

\* the first n entries of two lists are the same
SamePrefix(u, v, n) == \A k \in 1..n : u[k] = v[k]

Shorter(u, v) == IF Len(u) <= Len(v) THEN Len(u) ELSE Len(v)

\* C26: called with the same arguments, simulate (save_every = 1, factor 0.9),
\* run_simulation and simulate_1d hold the same field whenever they have done
\* the same number of steps, the snapshots of simulate and run_simulation are
\* the same step by step, and so are the amplitude traces of simulate and
\* simulate_1d.
ThreeImplementationsAgree ==
    /\ \A f \in Implementations, g \in Implementations :
           (sims[f].pc # "idle" /\ sims[g].pc # "idle" /\ sims[f].t = sims[g].t)
               => (sims[f].phi = sims[g].phi /\ sims[f].phi_prev = sims[g].phi_prev)
    /\ SamePrefix(sims["simulate"].phi_history, sims["run_simulation"].phi_history,
                  Shorter(sims["simulate"].phi_history,
                          sims["run_simulation"].phi_history))
    /\ SamePrefix(sims["simulate"].max_amplitude, sims["simulate_1d"].max_amplitude,
                  Shorter(sims["simulate"].max_amplitude,
                          sims["simulate_1d"].max_amplitude))

\* all three have returned after two steps with c = 2 that changed the field
ThreeImplementationsAgreeWitness ==
    /\ \A f \in Implementations : sims[f].pc = "returned" /\ sims[f].t = 2
    /\ self.arguments.c = Two
    /\ sims["simulate_1d"].phi # sims["simulate_1d"].phi_prev
    /\ Len(sims["simulate"].max_amplitude) = 3
    /\ sims["simulate"].max_amplitude[3] # sims["simulate"].max_amplitude[1]

(***************************************************************************)
(* The two 2D steps.  VGTSimulation2D holds its arrays as [y, x] (shape    *)
(* (Ny, Nx)), update_2d takes arrays indexed [x, y].                       *)
(***************************************************************************)
\* ndarray.T of a 2D array
Transposed(m) == [j \in 1..Cols(m) |-> [i \in 1..Rows(m) |-> m[i][j]]]

\* phi_next of one iteration of VGTSimulation2D.simulate (lines 115-126) for the
\* spacings, dt, c and omega0 of s
EngineStep2D(s, cur, prev) ==
    FixedBoundary2D(UpdateField(s, cur, prev, laplacian_2d(s, cur)))

\* C27: a step of VGTSimulation2D.simulate gives the transpose of what update_2d
\* gives for the transposed fields and the same dt, dx, dy, c, omega0, and a
\* step of update_2d gives the transpose of what the engine's step gives for
\* the transposed fields; also with dx # dy and Nx # Ny.
StepsAgreeTransposed ==
    [][(pc = "loop" /\ t' = t + 1) =>
         /\ self.kind = "VGTSimulation2D" =>
                phi' = Transposed(update_2d(Transposed(phi), Transposed(phi_prev),
                                            self.dt, self.dx, self.dy, self.c,
                                            self.omega0))
         /\ self.kind = "update_2d" =>
                phi' = Transposed(EngineStep2D(self, Transposed(phi),
                                               Transposed(phi_prev)))]_vars

\* an engine step on a grid with Nx # Ny and dx # dy that left a field which is
\* not 0 inside and differs from the field before
StepsAgreeTransposedWitness ==
    /\ self.kind = "VGTSimulation2D"
    /\ self.Nx # self.Ny
    /\ self.dx # self.dy
    /\ t >= 1
    /\ phi # phi_prev
    /\ \E r \in 2..(self.Ny - 1) : \E k \in 2..(self.Nx - 1) : phi[r][k] # Zero

(***************************************************************************)
(* Runs that end with an error.                                            *)
(***************************************************************************)
\* the first simulate call on a new instance ended with an error; before the
\* call the four lists were empty (__init__, wave_1d.py lines 48-50,
\* wave_2d.py lines 52-54)
FirstCallRaised == self.kind \in Engines /\ pc = "raised" /\ calls = 1 /\ ~seeded

\* C28: when simulate ends with an error the histories are as they were before
\* the call; for the first call on a new instance: phi_history, time_points,
\* max_amplitude and energy_history are still empty.
FailedRunRecordsNothing ==
    FirstCallRaised =>
        /\ phi_history = <<>>
        /\ time_points = <<>>
        /\ max_amplitude = <<>>
        /\ energy_history = <<>>

(***************************************************************************)
(* The spacing and the grid.                                               *)
(***************************************************************************)
\* the distance between every two adjacent coordinates of v is h
SpacedBy(v, h) == \A i \in 1..(Len(v) - 1) : RSub(v[i + 1], v[i]) = h

\* C30: the spacing dx of the stencil and of dt is the distance between adjacent
\* coordinates of x, the grid the pulse is sampled on (VGTSimulation1D,
\* simulate_wave / run_simulation, VGTSimulation2D), and in 2D dy is that of y.
SpacingConsistent ==
    /\ self.kind \in {"VGTSimulation1D", "run_simulation", "VGTSimulation2D"}
           => SpacedBy(self.x, self.dx)
    /\ self.kind = "VGTSimulation2D" => SpacedBy(self.y, self.dy)

=============================================================================
